---------------------------- MODULE Spec2Model ----------------------------
(***************************************************************************)
(* Model of recbole.trainer.trainer (src/ads_p/recbole/trainer/trainer.py):*)
(* the Trainer life cycle (construction, resume_checkpoint, fit with its   *)
(* epoch loop, validation, early stopping and checkpoint writes), the      *)
(* full-ranking masking and swap corrections, and the popularity buckets.  *)
(***************************************************************************)
EXTENDS Integers, Sequences, FiniteSets, TLC

(***************************************************************************)
(* Bounds of the model.                                                    *)
(***************************************************************************)
MaxEpochs == 3
MaxEvalStep == 2
MaxPatience == 2
NBatches == 2
ScoreLow == 2
MaxScore == 2
MaxRuns == 2
EvalUsers == 2
EvalItems == 3
MaxPopItems == 3
MaxPop == 2
MaxClass == 3
MaxTopk == 2
MaxBlock == 2
MaxInterval == 2
MaxSaveStep == 2
MaxRecBatches == 2
MaxBatchSize == 4
MaxLimit == 2
MaxAuc == 2

\* validation scores the evaluator may produce: -ScoreLow .. MaxScore
Scores == (0 - ScoreLow)..MaxScore

\* Python None / an absent file is the empty sequence, a value v is <<v>>.
None == <<>>
Some(v) == <<v>>

\* The trainer classes modelled.
Variants == {"Trainer", "TraditionalTrainer", "KGTrainer", "KGATTrainer",
             "MKRTrainer", "S3RecTrainer"}

\* Number of positional parameters Trainer.__init__ requires after self
\* (config, model, item_popularity), and the number the subclasses pass on.
TrainerInitParams == 3
SubclassSuperArgs == 2

VARIABLES
  \* configuration (never changed after Init)
  variant,              \* class of the trainer that is built
  cfg_epochs,           \* config['epochs']
  cfg_eval_step,        \* config['eval_step']
  stopping_step,        \* config['stopping_step']
  valid_metric_bigger,  \* config['valid_metric_bigger']
  valid_data,           \* TRUE iff fit is given validation data
  saved,                \* the saved argument of fit
  model_name,           \* config['model']
  callback_fn,          \* TRUE iff fit is given a callback_fn
  clip_grad_norm,       \* TRUE iff config['clip_grad_norm'] is set
  \* trainer fields
  epochs, eval_step, start_epoch, cur_step, best_valid_score,
  best_valid_result, model_state, optimizer_state, grad,
  \* files
  saved_model_file,     \* self.saved_model_file: None or Some(state)
  resume_file,          \* a checkpoint written by an earlier trainer
  \* position in the program and locals of fit / _train_epoch
  pc, epoch_idx, batch_idx, bpc, loss, valid_score, valid_result,
  stop_flag, update_flag,
  \* observation
  trained,              \* _train_epoch calls completed in this fit
  evals,                \* validation evaluations made in this fit
  nsteps,               \* optimizer steps applied in this fit
  after_step,           \* model and optimizer as the last optimizer step
                        \* (or the construction or resume before it) left them
  snap,                 \* trainer values when the last checkpoint was written
  last,                 \* name of the last step taken
  runs,                 \* trainers built so far
  warned,               \* resume_checkpoint logged its architecture warning
  resumed,              \* resume_checkpoint was called on this trainer
  model_mode,           \* "train" or "eval": self.model.training
  eval_call,            \* the last call of an evaluation method after fit
  evaluator_calls,      \* calls of self.evaluator.evaluate
  callbacks,            \* calls of callback_fn in this fit
  callback_args,        \* the arguments of the last call of callback_fn
  \* _full_sort_batch_eval
  epc, predicted, history_index, swap1, swap2, masked, corrected1, scores,
  \* get_threshes / evaluate_pop
  ppc, item_popularity, p_class, positions, threshes, topk_item, bucket,
  rec_num_list, ranked,
  max_topk,             \* max(self.topk): the columns of topk_idx
  batch_rows,           \* rows (users) of a batch of eval_data
  positive_items,       \* eval_data.uid2positive
  rec_pos_score, rec_pos_num, rec_mean_score,
  user_pos_num,         \* per bucket: counted items that are positives of
                        \* the user of their row
  \* the write of _save_checkpoint
  wpc,                  \* position in torch.save
  disk,                 \* the checkpoint file as written so far: None, or
                        \* Some(the entries on disk)
  \* write_rec_list
  rpc,                  \* position in write_rec_list
  rec_data,             \* eval_data: the score matrices of its batches
  rec_topk,             \* max(self.topk)
  rec_batch,            \* batch_idx
  rec_user, rec_pos,    \* the loop variables u and p
  rec_file,             \* the file at file_path: None, or Some(its lines)
  \* _spilt_predict
  spc,                  \* position in the prediction of a batch
  interaction,          \* the rows of the batch
  test_batch_size,      \* self.test_batch_size
  spilt_interaction,    \* the blocks tensor.split returns
  num_block, block_i, result_list,
  split_scores,         \* the scores of the batch: None, or Some(scores)
  predict_calls,        \* calls of self.model.predict for the batch
  \* CausE train_and_eval
  cpc,                  \* position in train_and_eval
  max_epochs,           \* early_stopping.max_epochs
  epo,                  \* the loop variable; -1 before the first epoch
  model_params,         \* the model's parameters: the epochs that made them
  best_state,           \* early_stopping.best_state: None, or Some(params)
  best_epoch,           \* early_stopping.best_epoch: None, or Some(epoch)
  val_results,          \* val_results['AUC'] of the epoch: None, or Some
  checks,               \* the calls of early_stopping.check and their results
  test_results          \* the parameters the returned metrics were computed
                        \* with: None, or Some(params)

cfgVars == <<variant, cfg_epochs, cfg_eval_step, stopping_step,
             valid_metric_bigger, valid_data, saved, model_name,
             callback_fn, clip_grad_norm>>
trainerVars == <<epochs, eval_step, start_epoch, cur_step, best_valid_score,
                 best_valid_result, model_state, optimizer_state, grad>>
fileVars == <<saved_model_file, resume_file>>
fitVars == <<pc, epoch_idx, batch_idx, bpc, loss, valid_score,
             valid_result, stop_flag, update_flag>>
obsVars == <<trained, evals, nsteps, after_step, snap, last, runs, warned,
            resumed>>
evalVars == <<epc, predicted, history_index, swap1, swap2, masked,
              corrected1, scores>>
popVars == <<ppc, item_popularity, p_class, positions, threshes, topk_item,
             bucket, rec_num_list, ranked, max_topk, batch_rows,
             positive_items, rec_pos_score, rec_pos_num, rec_mean_score,
             user_pos_num>>
saveVars == <<wpc, disk>>
recVars == <<rpc, rec_data, rec_topk, rec_batch, rec_user, rec_pos, rec_file>>
splitVars == <<spc, interaction, test_batch_size, spilt_interaction,
               num_block, block_i, result_list, split_scores,
               predict_calls>>
causeVars == <<cpc, max_epochs, epo, model_params, best_state, best_epoch,
               val_results, checks, test_results>>
auxVars == <<recVars, splitVars, causeVars>>
callVars == <<eval_call, evaluator_calls, callbacks, callback_args>>
modeVars == <<model_mode, callVars>>
lifeVars == <<cfgVars, trainerVars, fileVars, fitVars, obsVars, modeVars>>
vars == <<lifeVars, evalVars, popVars, saveVars, auxVars>>

Min(a, b) == IF a <= b THEN a ELSE b
Max(a, b) == IF a >= b THEN a ELSE b

(***************************************************************************)
(* early_stopping (recbole.utils, not among the source files): section 4.2 *)
(* of the specification.                                                   *)
(***************************************************************************)
early_stopping(value, best, step, max_step, bigger) ==
  LET improved == IF bigger THEN value > best ELSE value < best
      nstep == IF improved THEN 0 ELSE step + 1
  IN [best |-> IF improved THEN value ELSE best,
      cur_step |-> nstep,
      stop_flag |-> nstep >= max_step,
      update_flag |-> improved]

\* calculate_valid_score (recbole.utils): the score is the entry of the
\* validation result under valid_metric.
calculate_valid_score(result) == result.score

(***************************************************************************)
(* Initial states: a configuration, an empty checkpoint directory and no   *)
(* trainer built yet.                                                      *)
(***************************************************************************)
NoLocals ==
  /\ epoch_idx = 0 /\ batch_idx = 0 /\ bpc = "none" /\ loss = "none"
  /\ valid_score = 0 /\ valid_result = None
  /\ stop_flag = FALSE /\ update_flag = FALSE

NoSnap == [epoch |-> 0, cur_step |-> 0, best_valid_score |-> 0,
           state_dict |-> 0, optimizer |-> 0]

FreshModel == [model |-> 0, optimizer |-> 0]

\* no batch evaluation is in progress
IdleEval ==
  /\ epc = "idle" /\ predicted = <<>> /\ history_index = None
  /\ swap1 = {} /\ swap2 = {} /\ masked = <<>> /\ corrected1 = <<>>
  /\ scores = <<>>

\* no popularity evaluation is in progress
IdlePop ==
  /\ ppc = "idle" /\ item_popularity = <<>> /\ p_class = 0
  /\ positions = 0 /\ threshes = <<>> /\ topk_item = 0 /\ bucket = None
  /\ rec_num_list = <<>> /\ ranked = 0
  /\ max_topk = 0 /\ batch_rows = 0 /\ positive_items = <<>>
  /\ rec_pos_score = <<>> /\ rec_pos_num = <<>> /\ rec_mean_score = <<>>
  /\ user_pos_num = <<>>

\* no checkpoint write is in progress
IdleSave == wpc = "idle" /\ disk = None

\* write_rec_list is not running
IdleRec ==
  /\ rpc = "idle" /\ rec_data = <<>> /\ rec_topk = 0 /\ rec_batch = 0
  /\ rec_user = 0 /\ rec_pos = 0 /\ rec_file = None

\* no pointwise batch is being predicted
IdleSplit ==
  /\ spc = "idle" /\ interaction = <<>> /\ test_batch_size = 0
  /\ spilt_interaction = <<>> /\ num_block = 0 /\ block_i = 0
  /\ result_list = <<>> /\ split_scores = None /\ predict_calls = 0

\* CausE train_and_eval is not running
IdleCausE ==
  /\ cpc = "idle" /\ max_epochs = 0 /\ epo = -1 /\ model_params = 0
  /\ best_state = None /\ best_epoch = None /\ val_results = None
  /\ checks = <<>> /\ test_results = None

IdleAux == IdleRec /\ IdleSplit /\ IdleCausE

\* a model as it is built, in training mode; no evaluation and no callback
\* has been called
NoCalls ==
  /\ model_mode = "train" /\ eval_call = None /\ evaluator_calls = 0
  /\ callbacks = 0 /\ callback_args = None

\* fit is given a callback and no gradient clipping is configured
PlainFit == callback_fn = TRUE /\ clip_grad_norm = FALSE

\* no trainer is built yet
NoTrainer ==
  /\ epochs = 0 /\ eval_step = 0 /\ start_epoch = 0 /\ cur_step = 0
  /\ best_valid_score = 0 /\ best_valid_result = None
  /\ model_state = 0 /\ optimizer_state = 0 /\ grad = "none"
  /\ saved_model_file = None /\ resume_file = None
  /\ pc = "new" /\ NoLocals
  /\ trained = 0 /\ evals = 0 /\ nsteps = 0 /\ after_step = FreshModel
  /\ snap = NoSnap /\ last = "init" /\ runs = 0
  /\ warned = FALSE /\ resumed = FALSE
  /\ NoCalls

Init ==
  /\ variant \in Variants
  /\ cfg_epochs \in 0..MaxEpochs
  /\ cfg_eval_step \in 0..MaxEvalStep
  /\ stopping_step \in 0..MaxPatience
  /\ valid_metric_bigger \in BOOLEAN
  /\ valid_data \in BOOLEAN
  /\ saved \in BOOLEAN
  /\ model_name = "BPR"
  /\ PlainFit
  /\ NoTrainer
  /\ IdleEval /\ IdlePop /\ IdleSave /\ IdleAux

\* the life cycle is not under study: one configuration, no trainer built
IdleLife ==
  /\ variant = "Trainer" /\ cfg_epochs = 0 /\ cfg_eval_step = 0
  /\ stopping_step = 0 /\ valid_metric_bigger = TRUE /\ valid_data = FALSE
  /\ saved = FALSE /\ model_name = "BPR"
  /\ PlainFit
  /\ NoTrainer

(***************************************************************************)
(* Construction.                                                           *)
(***************************************************************************)
ResetLocals ==
  /\ epoch_idx' = 0 /\ batch_idx' = 0 /\ bpc' = "none" /\ loss' = "none"
  /\ valid_score' = 0 /\ valid_result' = None
  /\ stop_flag' = FALSE /\ update_flag' = FALSE

\* Trainer.__init__ called with nargs positional arguments after self; ep is
\* the value self.epochs holds when the constructor of the class returns.
Trainer__init__(nargs, ep) ==
  IF nargs # TrainerInitParams
  THEN \* TypeError: a required positional argument is missing
       /\ pc' = "raised" /\ last' = "TypeError"
       /\ UNCHANGED <<trainerVars, fileVars, after_step>>
  ELSE /\ epochs' = ep
       /\ eval_step' = Min(cfg_eval_step, cfg_epochs)
       /\ start_epoch' = 0
       /\ cur_step' = 0
       /\ best_valid_score' = -1
       /\ best_valid_result' = None
       /\ model_state' = 0 /\ optimizer_state' = 0 /\ grad' = "none"
       /\ after_step' = FreshModel
       /\ saved_model_file' = None
       /\ UNCHANGED resume_file
       /\ pc' = "ready" /\ last' = "init"

ConstructFrame ==
  UNCHANGED <<cfgVars, epoch_idx, batch_idx, bpc, loss, valid_score,
              valid_result, stop_flag, update_flag, trained, evals, nsteps,
              snap, warned, resumed, modeVars,
              evalVars, popVars, saveVars, auxVars>>

\* Trainer(config, model, item_popularity)
NewTrainer ==
  /\ pc = "new" /\ variant = "Trainer"
  /\ Trainer__init__(TrainerInitParams, cfg_epochs)
  /\ runs' = runs + 1
  /\ ConstructFrame

\* TraditionalTrainer(config, model): super().__init__(config, model), then
\* self.epochs = 1
NewTraditionalTrainer ==
  /\ pc = "new" /\ variant = "TraditionalTrainer"
  /\ Trainer__init__(SubclassSuperArgs, 1)
  /\ runs' = runs + 1
  /\ ConstructFrame

\* KGTrainer(config, model): super().__init__(config, model) (line 739)
NewKGTrainer ==
  /\ pc = "new" /\ variant = "KGTrainer"
  /\ Trainer__init__(SubclassSuperArgs, cfg_epochs)
  /\ runs' = runs + 1
  /\ ConstructFrame

\* KGATTrainer(config, model): super().__init__(config, model) (line 767)
NewKGATTrainer ==
  /\ pc = "new" /\ variant = "KGATTrainer"
  /\ Trainer__init__(SubclassSuperArgs, cfg_epochs)
  /\ runs' = runs + 1
  /\ ConstructFrame

\* MKRTrainer(config, model): super().__init__(config, model) (line 853)
NewMKRTrainer ==
  /\ pc = "new" /\ variant = "MKRTrainer"
  /\ Trainer__init__(SubclassSuperArgs, cfg_epochs)
  /\ runs' = runs + 1
  /\ ConstructFrame

\* S3RecTrainer(config, model): super().__init__(config, model) (line 795)
NewS3RecTrainer ==
  /\ pc = "new" /\ variant = "S3RecTrainer"
  /\ Trainer__init__(SubclassSuperArgs, cfg_epochs)
  /\ runs' = runs + 1
  /\ ConstructFrame

(***************************************************************************)
(* S3RecTrainer: fit and pretrain (lines 797-844).                         *)
(***************************************************************************)
\* values self.model.train_stage may hold
TrainStages == {"pretrain", "finetune", "pre-train", "none"}

\* S3RecTrainer.fit, lines 839-844: what the call goes on to
S3RecTrainer_fit(train_stage) ==
  CASE train_stage = "pretrain" -> "pretrain"
    [] train_stage = "finetune" -> "Trainer.fit"
    [] OTHER -> "ValueError"

\* save_pretrained_model, lines 805-811: the state it writes
PretrainedState(epoch, model, optimizer) ==
  [config |-> model_name, epoch |-> epoch, state_dict |-> model,
   optimizer |-> optimizer]

\* pretrain, lines 826-831, after the training of epoch: the file written,
\* named by model, dataset and epoch + 1, or None
PretrainSave(epoch, save_step, model, optimizer) ==
  IF (epoch + 1) % save_step = 0
  THEN Some([file |-> <<model_name, "dataset", epoch + 1>>,
             state |-> PretrainedState(epoch, model, optimizer)])
  ELSE None

\* pretrain, lines 815-836: the epochs it trains, each with the file it
\* writes; no call of _valid_epoch, early_stopping or _save_checkpoint
S3RecTrainer_pretrain(start, budget, save_step) ==
  [k \in 1..Max(budget - start, 0) |->
     [epoch |-> start + k - 1,
      evaluated |-> FALSE,
      best_file_written |-> FALSE,
      written |-> PretrainSave(start + k - 1, save_step, k * NBatches,
                               k * NBatches)]]

(***************************************************************************)
(* _train_epoch of the knowledge-aware trainers: the passes of an epoch.   *)
(* A pass is one call of Trainer._train_epoch with a loader mode and a     *)
(* loss function, or the update of the attention matrix.                   *)
(***************************************************************************)
\* KGTrainer._train_epoch, lines 745-750: the mode of the data loader;
\* train_rec_step and train_kg_step are None or Some(length)
KGTrainer_interaction_state(epoch, train_rec_step, train_kg_step) ==
  IF train_rec_step = None \/ train_kg_step = None THEN "RSKG"
  ELSE IF epoch % (train_rec_step[1] + train_kg_step[1]) < train_rec_step[1]
       THEN "RS"
       ELSE "KG"

\* KGTrainer._train_epoch, lines 751-758
KGTrainer_train_epoch(epoch, train_rec_step, train_kg_step) ==
  LET interaction_state ==
        KGTrainer_interaction_state(epoch, train_rec_step, train_kg_step)
  IN IF interaction_state \in {"RSKG", "RS"}
     THEN <<[mode |-> interaction_state, loss_func |-> "calculate_loss",
             steps |-> TRUE]>>
     ELSE <<[mode |-> "KG", loss_func |-> "calculate_kg_loss",
             steps |-> TRUE]>>

\* MKRTrainer._train_epoch, lines 856-874
MKRTrainer_train_epoch(epoch, kge_interval) ==
  <<[mode |-> "RS", loss_func |-> "calculate_rs_loss", steps |-> TRUE]>>
  \o (IF epoch % kge_interval = 0
      THEN <<[mode |-> "KG", loss_func |-> "calculate_kg_loss",
              steps |-> TRUE]>>
      ELSE <<>>)

\* KGATTrainer._train_epoch, lines 769-785; update_attentive_A runs under
\* torch.no_grad() and outside Trainer._train_epoch: no optimizer step
KGATTrainer_train_epoch(epoch) ==
  <<[mode |-> "RS", loss_func |-> "calculate_loss", steps |-> TRUE],
    [mode |-> "KG", loss_func |-> "calculate_kg_loss", steps |-> TRUE],
    [mode |-> "eval", loss_func |-> "update_attentive_A",
     steps |-> FALSE]>>

(***************************************************************************)
(* Checkpoints.                                                            *)
(***************************************************************************)
\* a state dictionary that counts the epochs from 1
CheckpointStateNextEpoch(epoch) ==
  [config |-> model_name,
   epoch |-> epoch + 1,
   cur_step |-> cur_step,
   best_valid_score |-> best_valid_score,
   state_dict |-> model_state,
   optimizer |-> optimizer_state]

\* the state dictionary _save_checkpoint writes (lines 199-206)
CheckpointState(epoch) ==
  [config |-> model_name,
   epoch |-> epoch,
   cur_step |-> cur_step,
   best_valid_score |-> best_valid_score,
   state_dict |-> model_state,
   optimizer |-> optimizer_state]

\* the trainer's values at the moment of the write
LiveValues(epoch) ==
  [epoch |-> epoch, cur_step |-> cur_step,
   best_valid_score |-> best_valid_score,
   state_dict |-> model_state, optimizer |-> optimizer_state]

_save_checkpoint(epoch) ==
  /\ saved_model_file' = Some(CheckpointState(epoch))
  /\ snap' = LiveValues(epoch)
  /\ UNCHANGED resume_file

NoSave == UNCHANGED <<saved_model_file, resume_file, snap>>

\* resume_checkpoint that leaves the optimizer as it was
ResumedKeepOptimizer(checkpoint) ==
  [start_epoch |-> checkpoint.epoch + 1,
   cur_step |-> checkpoint.cur_step,
   best_valid_score |-> checkpoint.best_valid_score,
   model_state |-> checkpoint.state_dict,
   optimizer_state |-> optimizer_state]

\* what resume_checkpoint makes of the checkpoint it loaded (lines 217-231)
Resumed(checkpoint) ==
  [start_epoch |-> checkpoint.epoch + 1,
   cur_step |-> checkpoint.cur_step,
   best_valid_score |-> checkpoint.best_valid_score,
   model_state |-> checkpoint.state_dict,
   optimizer_state |-> checkpoint.optimizer]

\* str.lower on the model names of the configurations
lower(s) ==
  CASE s = "BPR" -> "bpr"
    [] s = "NeuMF" -> "neumf"
    [] OTHER -> s

\* a comparison of the names as they are written
NamesDifferExact(a, b) == a # b

\* line 223: checkpoint['config']['model'].lower() !=
\* self.config['model'].lower()
NamesDiffer(a, b) == lower(a) # lower(b)

\* load_state_dict (line 228) takes a state of the model's own architecture;
\* the state of another architecture may not fit, and it then raises
LoadOutcomes(a, b) == IF lower(a) = lower(b) THEN {TRUE} ELSE BOOLEAN

\* lines 218-220: the keys resume_checkpoint reads first, in this order
ProgressKeys == <<"epoch", "cur_step", "best_valid_score">>

\* the first of these keys the checkpoint does not have, or None
MissingKey(checkpoint) ==
  LET missing == {k \in 1..Len(ProgressKeys) :
                    ProgressKeys[k] \notin DOMAIN checkpoint}
  IN IF missing = {} THEN None
     ELSE Some(ProgressKeys[CHOOSE k \in missing :
                              \A j \in missing : k <= j])

\* a checkpoint without one of the keys raises KeyError at the line that
\* reads it, after the assignments of the lines before it
resume_checkpoint ==
  /\ pc = "ready" /\ resume_file # None
  /\ LET checkpoint == resume_file[1]
         r == Resumed(checkpoint)
     IN IF MissingKey(checkpoint) # None
        THEN /\ start_epoch' =
                  IF MissingKey(checkpoint) = Some("epoch") THEN start_epoch
                  ELSE checkpoint.epoch + 1
             /\ cur_step' =
                  IF MissingKey(checkpoint) = Some("best_valid_score")
                  THEN checkpoint.cur_step ELSE cur_step
             /\ UNCHANGED <<best_valid_score, warned, model_state,
                            optimizer_state, after_step>>
             /\ pc' = "raised" /\ last' = "KeyError"
        ELSE
        /\ start_epoch' = r.start_epoch
        /\ cur_step' = r.cur_step
        /\ best_valid_score' = r.best_valid_score
        /\ warned' = NamesDiffer(checkpoint.config, model_name)
        /\ \E loads \in LoadOutcomes(checkpoint.config, model_name) :
             IF loads
             THEN /\ model_state' = r.model_state
                  /\ optimizer_state' = r.optimizer_state
                  /\ after_step' = [model |-> r.model_state,
                                    optimizer |-> r.optimizer_state]
                  /\ pc' = pc /\ last' = "resume"
             ELSE /\ UNCHANGED <<model_state, optimizer_state, after_step>>
                  /\ pc' = "raised" /\ last' = "RuntimeError"
  /\ resumed' = TRUE
  /\ UNCHANGED <<cfgVars, epochs, eval_step, best_valid_result, grad,
                 fileVars, epoch_idx, batch_idx, bpc, loss, valid_score,
                 valid_result, stop_flag, update_flag, trained, evals,
                 nsteps, snap, runs, modeVars,
                 evalVars, popVars, saveVars, auxVars>>

(***************************************************************************)
(* fit: the epoch loop.                                                    *)
(***************************************************************************)
\* a loop over range(self.start_epoch, self.epochs + 1)
LoopNextInclusive(e) ==
  IF e <= epochs
  THEN /\ pc' = "train" /\ epoch_idx' = e /\ batch_idx' = 0
       /\ bpc' = "zero_grad" /\ model_mode' = "train"
  ELSE /\ pc' = "stopped" /\ epoch_idx' = epoch_idx /\ batch_idx' = 0
       /\ bpc' = "none" /\ UNCHANGED model_mode

\* for epoch_idx in range(self.start_epoch, self.epochs): the loop variable
\* takes the value e, or the loop is exhausted and fit returns.
LoopNext(e) ==
  IF e < epochs
  THEN /\ pc' = "train" /\ epoch_idx' = e /\ batch_idx' = 0
       /\ bpc' = "zero_grad" /\ model_mode' = "train"
  ELSE /\ pc' = "stopped" /\ epoch_idx' = epoch_idx /\ batch_idx' = 0
       /\ bpc' = "none" /\ UNCHANGED model_mode

\* lines 334-337: the call of fit up to the first iteration
FitStart ==
  /\ pc = "ready"
  /\ IF saved /\ start_epoch >= epochs
     THEN _save_checkpoint(-1)
     ELSE NoSave
  /\ LoopNext(start_epoch)
  /\ trained' = 0 /\ evals' = 0 /\ nsteps' = 0 /\ callbacks' = 0
  /\ last' = "fit"
  /\ UNCHANGED <<cfgVars, trainerVars, loss, valid_score, valid_result,
                 stop_flag, update_flag, after_step, runs, warned, resumed,
                 eval_call, evaluator_calls, callback_args,
                 evalVars, popVars, saveVars, auxVars>>

(***************************************************************************)
(* _train_epoch: one batch is the sequence zero_grad, loss_func,           *)
(* _check_nan, backward, optimizer.step (lines 153-175).                   *)
(***************************************************************************)
InBatch(at) == pc = "train" /\ bpc = at

BatchFrame ==
  UNCHANGED <<cfgVars, epochs, eval_step, start_epoch, cur_step,
              best_valid_score, best_valid_result, fileVars, epoch_idx,
              valid_score, valid_result, stop_flag, update_flag, evals,
              snap, runs, warned, resumed, modeVars,
              evalVars, popVars, saveVars, auxVars>>

\* line 159: self.optimizer.zero_grad()
ZeroGrad ==
  /\ InBatch("zero_grad")
  /\ grad' = "zero"
  /\ bpc' = "loss" /\ last' = "zero_grad"
  /\ UNCHANGED <<pc, batch_idx, loss, model_state, optimizer_state, trained,
                 nsteps, after_step>>
  /\ BatchFrame

\* lines 160-167: losses = loss_func(interaction); the model returns a number
\* or not-a-number
ComputeLoss ==
  /\ InBatch("loss")
  /\ loss' \in {"finite", "nan"}
  /\ bpc' = "check_nan" /\ last' = "loss"
  /\ UNCHANGED <<pc, batch_idx, grad, model_state, optimizer_state, trained,
                 nsteps, after_step>>
  /\ BatchFrame

\* a loop that tests the loss only after the optimizer step of the batch
CheckNanAfterStep ==
  /\ InBatch("check_nan")
  /\ IF loss = "nan"
     THEN /\ pc' = "raised" /\ bpc' = "none" /\ last' = "nan"
          /\ model_state' = model_state + 1
          /\ optimizer_state' = optimizer_state + 1
          /\ nsteps' = nsteps + 1
     ELSE /\ pc' = pc /\ bpc' = "backward" /\ last' = "check_nan"
          /\ UNCHANGED <<model_state, optimizer_state, nsteps>>
  /\ UNCHANGED <<batch_idx, loss, grad, trained, after_step>>
  /\ BatchFrame

\* lines 168, 235-237: self._check_nan(loss) raises ValueError on nan
CheckNan ==
  /\ InBatch("check_nan")
  /\ IF loss = "nan"
     THEN pc' = "raised" /\ bpc' = "none" /\ last' = "nan"
     ELSE pc' = pc /\ bpc' = "backward" /\ last' = "check_nan"
  /\ UNCHANGED <<batch_idx, loss, grad, model_state, optimizer_state,
                 trained, nsteps, after_step>>
  /\ BatchFrame

\* lines 170-172: loss.backward(), then clip_grad_norm_ if it is configured
Backward ==
  /\ InBatch("backward")
  /\ grad' = IF clip_grad_norm THEN "clipped" ELSE "fresh"
  /\ bpc' = "step" /\ last' = "backward"
  /\ UNCHANGED <<pc, batch_idx, loss, model_state, optimizer_state, trained,
                 nsteps, after_step>>
  /\ BatchFrame

\* a loop that takes one batch more than train_data holds
MoreBatchesInclusive == batch_idx < NBatches

\* line 153: for batch_idx, interaction in iter_data, after a batch
MoreBatches == batch_idx + 1 < NBatches

\* line 173: self.optimizer.step(), then the next batch or the return of
\* total_loss (line 175)
OptimizerStep ==
  /\ InBatch("step")
  /\ model_state' = model_state + 1
  /\ optimizer_state' = optimizer_state + 1
  /\ after_step' = [model |-> model_state + 1,
                    optimizer |-> optimizer_state + 1]
  /\ nsteps' = nsteps + 1
  /\ loss' = "none"
  /\ last' = "step"
  /\ IF MoreBatches
     THEN /\ batch_idx' = batch_idx + 1 /\ bpc' = "zero_grad" /\ pc' = pc
          /\ trained' = trained
     ELSE /\ batch_idx' = 0 /\ bpc' = "none" /\ pc' = "after_train"
          /\ trained' = trained + 1
  /\ UNCHANGED grad
  /\ BatchFrame

(***************************************************************************)
(* fit: after the training epoch (lines 348-396).                          *)
(***************************************************************************)
FitFrame ==
  UNCHANGED <<cfgVars, epochs, eval_step, start_epoch, model_state,
              optimizer_state, grad, loss, trained, nsteps, after_step,
              runs, warned, resumed, eval_call,
              evalVars, popVars, saveVars, auxVars>>

\* a test of eval_step alone
NoEvaluationStepOnly == eval_step <= 0

\* line 349: if self.eval_step <= 0 or not valid_data
NoEvaluation == eval_step <= 0 \/ ~valid_data

\* a test of the epoch index itself against eval_step
EvalDueOnIndex(e) == e % eval_step = 0

\* line 356: if (epoch_idx + 1) % self.eval_step == 0
EvalDue(e) == (e + 1) % eval_step = 0

\* lines 349-355: no evaluation is configured
FitNoValid ==
  /\ pc = "after_train"
  /\ NoEvaluation
  /\ IF saved THEN _save_checkpoint(epoch_idx) ELSE NoSave
  /\ LoopNext(epoch_idx + 1)
  /\ last' = "no_valid"
  /\ UNCHANGED <<cur_step, best_valid_score, best_valid_result, valid_score,
                 valid_result, stop_flag, update_flag, evals>>
  /\ UNCHANGED <<evaluator_calls, callbacks, callback_args>>
  /\ FitFrame

\* line 356, condition false: back to the head of the loop
FitSkipEval ==
  /\ pc = "after_train"
  /\ ~NoEvaluation
  /\ ~EvalDue(epoch_idx)
  /\ LoopNext(epoch_idx + 1)
  /\ last' = "skip_eval"
  /\ NoSave
  /\ UNCHANGED <<cur_step, best_valid_score, best_valid_result, valid_score,
                 valid_result, stop_flag, update_flag, evals>>
  /\ UNCHANGED <<evaluator_calls, callbacks, callback_args>>
  /\ FitFrame

\* the call of early_stopping without its bigger argument, which then takes
\* its default
FitEarlyStoppingDefaultBigger(score) ==
  early_stopping(score, best_valid_score, cur_step, stopping_step, TRUE)

\* the call of early_stopping whose first result is dropped for the score
FitEarlyStoppingKeepScore(score) ==
  [early_stopping(score, best_valid_score, cur_step, stopping_step,
                  valid_metric_bigger) EXCEPT !.best = score]

\* lines 362-368: what fit assigns to self.best_valid_score, self.cur_step,
\* stop_flag and update_flag
FitEarlyStopping(score) ==
  early_stopping(score, best_valid_score, cur_step, stopping_step,
                 valid_metric_bigger)

\* lines 356-368: _valid_epoch and early_stopping; the evaluator produces
\* the score s
FitValidEpoch ==
  /\ pc = "after_train"
  /\ ~NoEvaluation
  /\ EvalDue(epoch_idx)
  /\ \E s \in Scores :
       LET result == [epoch |-> epoch_idx, score |-> s]
           score == calculate_valid_score(result)
           es == FitEarlyStopping(score)
       IN /\ valid_result' = Some(result)
          /\ valid_score' = score
          /\ best_valid_score' = es.best
          /\ cur_step' = es.cur_step
          /\ stop_flag' = es.stop_flag
          /\ update_flag' = es.update_flag
  /\ pc' = "update" /\ last' = "valid"
  /\ evals' = evals + 1
  /\ NoSave
  /\ UNCHANGED <<best_valid_result, epoch_idx, batch_idx, bpc>>
  /\ model_mode' = "eval" /\ evaluator_calls' = evaluator_calls + 1
  /\ UNCHANGED <<callbacks, callback_args>>
  /\ FitFrame

\* an update made after every evaluation
UpdateBestAlways == TRUE

\* line 380: if update_flag
UpdateBest == update_flag

\* lines 380-386
FitUpdate ==
  /\ pc = "update"
  /\ IF UpdateBest
     THEN /\ IF saved THEN _save_checkpoint(epoch_idx) ELSE NoSave
          /\ best_valid_result' = valid_result
     ELSE /\ NoSave
          /\ UNCHANGED best_valid_result
  /\ pc' = "callback" /\ last' = "update"
  /\ UNCHANGED <<cur_step, best_valid_score, valid_score, valid_result,
                 stop_flag, update_flag, epoch_idx, batch_idx, bpc, evals>>
  /\ UNCHANGED <<model_mode, evaluator_calls, callbacks, callback_args>>
  /\ FitFrame

\* a callback that is left out at the evaluation that stops the run
CallbackUnlessStop == callback_fn /\ ~stop_flag

\* line 388: if callback_fn
CallbackGiven == callback_fn

\* lines 388-389: callback_fn(epoch_idx, valid_score)
FitCallback ==
  /\ pc = "callback"
  /\ IF CallbackGiven
     THEN /\ callbacks' = callbacks + 1
          /\ callback_args' = Some(<<epoch_idx, valid_score>>)
     ELSE UNCHANGED <<callbacks, callback_args>>
  /\ UNCHANGED <<model_mode, evaluator_calls>>
  /\ pc' = "break" /\ last' = "callback"
  /\ NoSave
  /\ UNCHANGED <<cur_step, best_valid_score, best_valid_result, valid_score,
                 valid_result, stop_flag, update_flag, epoch_idx, batch_idx,
                 bpc, evals>>
  /\ FitFrame

\* a loop left on the wrong flag
BreakOnUpdate == update_flag

\* line 391: if stop_flag
BreakLoop == stop_flag

\* lines 391-396: break on stop_flag, else the next iteration
FitBreak ==
  /\ pc = "break"
  /\ IF BreakLoop
     THEN /\ pc' = "stopped"
          /\ UNCHANGED <<epoch_idx, batch_idx, bpc, model_mode>>
     ELSE LoopNext(epoch_idx + 1)
  /\ UNCHANGED <<evaluator_calls, callbacks, callback_args>>
  /\ last' = "break"
  /\ NoSave
  /\ UNCHANGED <<cur_step, best_valid_score, best_valid_result, valid_score,
                 valid_result, stop_flag, update_flag, evals>>
  /\ FitFrame

(***************************************************************************)
(* evaluate(eval_data, load_best_model=True, model_file) after fit         *)
(* (lines 543-553).                                                        *)
(***************************************************************************)
\* an evaluation that restores the checkpoint as resume_checkpoint does
LoadBestAsResume(checkpoint) == Resumed(checkpoint)

\* line 549: self.model.load_state_dict(checkpoint['state_dict']); the other
\* fields of the trainer are as they were
LoadBest(checkpoint) ==
  [start_epoch |-> start_epoch,
   cur_step |-> cur_step,
   best_valid_score |-> best_valid_score,
   model_state |-> checkpoint.state_dict,
   optimizer_state |-> optimizer_state]

\* the calls of the evaluation methods made after fit: evaluate with or
\* without evaluation data, evaluate_pop and dis_evaluate without
EvaluateCalls ==
  {[fn |-> "evaluate", eval_data |-> TRUE]}
    \cup {[fn |-> f, eval_data |-> FALSE] :
            f \in {"evaluate", "evaluate_pop", "dis_evaluate"}}

\* a method that goes on without evaluation data
NeverReturnsAtOnce(eval_data) == FALSE

\* lines 540-541, 615-616, 459-460: if not eval_data: return
ReturnsAtOnce(eval_data) == ~eval_data

\* the call of an evaluation method with load_best_model=True. model_file
\* is given (the file of an earlier trainer) or not (the trainer's own
\* saved_model_file); torch.load of a file that does not exist raises
EvaluateLoadBest ==
  /\ pc = "stopped"
  /\ \E call \in EvaluateCalls :
       IF ReturnsAtOnce(call.eval_data)
       THEN /\ pc' = "evaluated" /\ last' = "no_data"
            /\ eval_call' = Some(call)
            /\ UNCHANGED <<start_epoch, cur_step, best_valid_score,
                           model_state, optimizer_state, model_mode,
                           evaluator_calls>>
       ELSE \E checkpoint_file \in {saved_model_file, resume_file} :
              IF checkpoint_file = None
              THEN /\ pc' = "raised" /\ last' = "FileNotFoundError"
                   /\ eval_call' = Some(call)
                   /\ UNCHANGED <<start_epoch, cur_step, best_valid_score,
                                  model_state, optimizer_state, model_mode,
                                  evaluator_calls>>
              ELSE LET b == LoadBest(checkpoint_file[1])
                   IN /\ start_epoch' = b.start_epoch
                      /\ cur_step' = b.cur_step
                      /\ best_valid_score' = b.best_valid_score
                      /\ model_state' = b.model_state
                      /\ optimizer_state' = b.optimizer_state
                      /\ model_mode' = "eval"
                      /\ evaluator_calls' = evaluator_calls + 1
                      /\ eval_call' = Some(call)
                      /\ pc' = "evaluated" /\ last' = "evaluate"
  /\ UNCHANGED <<cfgVars, epochs, eval_step, best_valid_result, grad,
                 fileVars, epoch_idx, batch_idx, bpc, loss, valid_score,
                 valid_result, stop_flag, update_flag, trained, evals,
                 nsteps, after_step, snap, runs, warned, resumed, callbacks,
                 callback_args, evalVars, popVars, saveVars, auxVars>>

(***************************************************************************)
(* A later process: the checkpoint the trainer wrote, if any, is the file  *)
(* a new trainer may resume from.                                          *)
(***************************************************************************)
NewProcess ==
  /\ pc \in {"stopped", "raised", "evaluated"}
  /\ runs < MaxRuns
  /\ resume_file' = IF saved_model_file # None THEN saved_model_file
                    ELSE resume_file
  /\ saved_model_file' = None
  /\ epochs' = 0 /\ eval_step' = 0 /\ start_epoch' = 0 /\ cur_step' = 0
  /\ best_valid_score' = 0 /\ best_valid_result' = None
  /\ model_state' = 0 /\ optimizer_state' = 0 /\ grad' = "none"
  /\ pc' = "new" /\ ResetLocals
  /\ trained' = 0 /\ evals' = 0 /\ nsteps' = 0 /\ after_step' = FreshModel
  /\ last' = "init" /\ warned' = FALSE /\ resumed' = FALSE
  /\ model_mode' = "train" /\ eval_call' = None /\ evaluator_calls' = 0
  /\ callbacks' = 0 /\ callback_args' = None
  /\ UNCHANGED <<cfgVars, snap, runs, evalVars, popVars, saveVars, auxVars>>

TrainSteps == ZeroGrad \/ ComputeLoss \/ CheckNan \/ Backward \/ OptimizerStep

FitSteps ==
  \/ FitStart \/ TrainSteps
  \/ FitNoValid \/ FitSkipEval \/ FitValidEpoch
  \/ FitUpdate \/ FitCallback \/ FitBreak

Next ==
  \/ NewTrainer \/ NewTraditionalTrainer
  \/ NewKGTrainer \/ NewKGATTrainer \/ NewMKRTrainer \/ NewS3RecTrainer
  \/ resume_checkpoint
  \/ FitSteps \/ EvaluateLoadBest \/ NewProcess

Spec == Init /\ [][Next]_vars

\* The thread that called fit keeps running it.
FairSpec == Spec /\ WF_vars(FitSteps)

(***************************************************************************)
(* Properties of the trainer life cycle.                                   *)
(***************************************************************************)
\* the steps that belong to a call of fit
FitStepNames == {"fit", "zero_grad", "loss", "check_nan", "nan", "backward",
                 "step", "no_valid", "skip_eval", "valid", "update",
                 "callback", "break"}

InFit == pc \in {"train", "after_train", "update", "callback", "break"}

\* C1: at every validation evaluation of fit, a score that strictly improves
\* on best_valid_score (greater if valid_metric_bigger, smaller if not)
\* resets cur_step to 0 and becomes best_valid_score; any other score adds
\* exactly 1 to cur_step and leaves best_valid_score; no other step of fit
\* changes cur_step.
C1_CurStepRule ==
  [][last' \in FitStepNames =>
       IF last' = "valid"
       THEN LET new_score == valid_score'
                improves == IF valid_metric_bigger
                            THEN new_score > best_valid_score
                            ELSE new_score < best_valid_score
            IN IF improves
               THEN cur_step' = 0 /\ best_valid_score' = new_score
               ELSE cur_step' = cur_step + 1
                    /\ best_valid_score' = best_valid_score
       ELSE cur_step' = cur_step]_vars

\* C1 witness: the second evaluation of a run did not improve on the first,
\* which had improved.
C1_Witness ==
  last = "valid" /\ evals = 2 /\ ~update_flag /\ cur_step = 1

\* the parts of C2 that do not bound cur_step: the evaluation signals stop
\* exactly when it leaves cur_step >= stopping_step, and no training epoch
\* runs after an evaluation that left cur_step >= stopping_step
C2_StopSignal ==
  /\ pc \in {"update", "callback", "break"}
       => (stop_flag <=> cur_step >= stopping_step)
  /\ (pc = "train" /\ evals > 0) => cur_step < stopping_step
  /\ (pc = "stopped" /\ last = "break" /\ stop_flag)
       => cur_step >= stopping_step

\* C2 as stated: training stops once cur_step reaches stopping_step, and
\* cur_step <= stopping_step in every reachable state.
C2_Original == C2_StopSignal /\ cur_step <= stopping_step

\* C2 as amended: training stops once cur_step reaches stopping_step, and
\* cur_step <= max(stopping_step, 1) in every reachable state.
C2_StopsAtPatience == C2_StopSignal /\ cur_step <= Max(stopping_step, 1)

\* C2 witness: a run stopped early after stopping_step = 2 evaluations
\* without improvement.
C2_Witness ==
  /\ pc = "stopped" /\ stop_flag /\ stopping_step = 2 /\ cur_step = 2
  /\ trained < epochs - start_epoch

\* C3: within one run of fit, best_valid_score never decreases when
\* valid_metric_bigger is true and never increases when it is false.
C3_BestNeverRegresses ==
  [][last' \in FitStepNames =>
       IF valid_metric_bigger
       THEN best_valid_score' >= best_valid_score
       ELSE best_valid_score' <= best_valid_score]_vars

\* C3 witness: a run that started from a resumed best_valid_score improved
\* on it.
C3_Witness ==
  /\ last = "valid" /\ update_flag /\ start_epoch > 0
  /\ best_valid_score > 0

\* C4 as stated: after resume_checkpoint of the file _save_checkpoint(epoch)
\* wrote, the trainer's epoch, cur_step, best_valid_score, model state and
\* optimizer state are the saved values.
C4_Original ==
  last = "resume" =>
    /\ start_epoch = snap.epoch
    /\ cur_step = snap.cur_step
    /\ best_valid_score = snap.best_valid_score
    /\ model_state = snap.state_dict
    /\ optimizer_state = snap.optimizer

\* C4 as amended: after resume_checkpoint of the file _save_checkpoint(epoch)
\* wrote, start_epoch is the saved epoch + 1, and cur_step,
\* best_valid_score, model state and optimizer state are the saved values.
C4_RoundTrip ==
  last = "resume" =>
    /\ start_epoch = snap.epoch + 1
    /\ cur_step = snap.cur_step
    /\ best_valid_score = snap.best_valid_score
    /\ model_state = snap.state_dict
    /\ optimizer_state = snap.optimizer

\* C4 witness: a fresh trainer resumed a checkpoint of a trained model.
C4_Witness ==
  /\ last = "resume" /\ snap.epoch >= 1 /\ snap.state_dict > 0
  /\ snap.best_valid_score > 0

\* C5: when the loss of a batch is not-a-number the epoch loop raises, no
\* later step of the loop runs, and no optimizer step was applied for that
\* batch: model and optimizer are as the previous batch's step left them.
C5_NanAbort ==
  (pc = "raised" /\ last = "nan") =>
    /\ nsteps = trained * NBatches + batch_idx
    /\ model_state = after_step.model
    /\ optimizer_state = after_step.optimizer
    /\ ~ENABLED FitSteps

\* C5 witness: the loss became not-a-number in a later batch of a later
\* epoch.
C5_Witness ==
  pc = "raised" /\ last = "nan" /\ trained >= 1 /\ batch_idx >= 1

\* C8: a TraditionalTrainer built from (config, model) and run with fit
\* trains exactly one epoch whatever config['epochs'] is: once the program
\* is over, one epoch was trained.
C8_SingleEpoch ==
  (variant = "TraditionalTrainer" /\ pc \in {"stopped", "raised"})
    => trained = 1

\* the safety part of C10: at most epochs - start_epoch training epochs, and
\* STOPPED only on an exhausted epoch budget or a signaled stop
C10_Bound ==
  /\ (InFit \/ pc = "stopped") => trained <= Max(epochs - start_epoch, 0)
  /\ pc = "stopped" =>
       \/ last = "break" /\ stop_flag
       \/ trained = Max(epochs - start_epoch, 0)

\* C10 as stated: a call of fit always ends in STOPPED, after at most
\* epochs - start_epoch training epochs, and only on an exhausted epoch
\* budget or a signaled stop.
C10_Original ==
  /\ C10_Bound
  /\ (last \in FitStepNames /\ ~ENABLED FitSteps) => pc = "stopped"

\* C10 as amended: a call of fit always ends, either with the error a
\* training epoch raises on a not-a-number loss or in STOPPED; STOPPED is
\* reached after at most epochs - start_epoch training epochs and only on an
\* exhausted epoch budget or a signaled stop.
C10_Terminates ==
  /\ []C10_Bound
  /\ [](last \in FitStepNames /\ ~ENABLED FitSteps
          => pc = "stopped" \/ (pc = "raised" /\ last = "nan"))
  /\ (InFit ~> (pc = "stopped" \/ (pc = "raised" /\ last = "nan")))

\* C10 witness: early stopping ended a run before the epoch budget.
C10_Witness ==
  /\ pc = "stopped" /\ last = "break" /\ stop_flag
  /\ trained >= 2 /\ trained < epochs - start_epoch

\* the evaluation of C11 is due after epoch_idx
C11_Due == (epoch_idx + 1) % eval_step = 0

\* the parts of C11 about entering EVALUATING: it is entered after a training
\* epoch exactly when (epoch_idx + 1) is a multiple of eval_step, and from
\* nowhere else
C11_Entered ==
  /\ (pc = "after_train" /\ valid_data /\ eval_step > 0 /\ C11_Due)
       => (pc' = "update" /\ evals' = evals + 1)
  /\ (pc' = "update" /\ pc # "update")
       => (pc = "after_train" /\ valid_data /\ eval_step > 0 /\ C11_Due)

\* C11 as stated: with validation data and eval_step > 0, EVALUATING is
\* entered after training epoch epoch_idx iff (epoch_idx + 1) is a multiple
\* of eval_step; every other epoch goes straight back to TRAINING with
\* cur_step, best_valid_score and the checkpoint unchanged.
C11_Original ==
  [][/\ C11_Entered
     /\ (pc = "after_train" /\ valid_data /\ eval_step > 0 /\ ~C11_Due)
          => /\ pc' = "train" /\ epoch_idx' = epoch_idx + 1
             /\ UNCHANGED <<cur_step, best_valid_score,
                            saved_model_file>>]_vars

\* C11 as amended: with validation data and eval_step > 0, EVALUATING is
\* entered after training epoch epoch_idx iff (epoch_idx + 1) is a multiple
\* of eval_step; every other epoch goes straight back to the head of the
\* loop, which is TRAINING of epoch epoch_idx + 1, or STOPPED when
\* epoch_idx + 1 reaches epochs, with cur_step, best_valid_score and the
\* checkpoint unchanged.
C11_EvalSchedule ==
  [][/\ C11_Entered
     /\ (pc = "after_train" /\ valid_data /\ eval_step > 0 /\ ~C11_Due)
          => /\ IF epoch_idx + 1 < epochs
                THEN pc' = "train" /\ epoch_idx' = epoch_idx + 1
                ELSE pc' = "stopped"
             /\ UNCHANGED <<cur_step, best_valid_score,
                            saved_model_file>>]_vars

\* C11 witness: the epoch before the last was evaluated, the last epoch was
\* not and the run stopped on the exhausted budget.
C11_Witness ==
  /\ last = "skip_eval" /\ pc = "stopped" /\ evals = 1 /\ eval_step = 2
  /\ valid_data

\* the checkpoint C12 expects after training epoch epoch_idx: the trainer's
\* values at that moment
C12_Checkpoint ==
  Some([config |-> model_name, epoch |-> epoch_idx, cur_step |-> cur_step,
        best_valid_score |-> best_valid_score, state_dict |-> model_state,
        optimizer |-> optimizer_state])

\* the part of C12 about early stopping: without validation data no step of
\* fit changes cur_step, best_valid_score or best_valid_result
C12_NoEarlyStopping ==
  (~valid_data /\ last' \in FitStepNames)
    => UNCHANGED <<cur_step, best_valid_score, best_valid_result>>

\* what C12 says of a run that reached STOPPED: the full budget was trained,
\* and a trainer that was not resumed returns (-1, None)
C12_Returned ==
  (~valid_data /\ pc = "stopped") =>
    /\ trained = Max(epochs - start_epoch, 0)
    /\ ~resumed => (best_valid_score = -1 /\ best_valid_result = None)

\* C12 as stated: without a validation set every trained epoch writes a
\* checkpoint, cur_step and best_valid_score never change, and the run
\* always completes its full epoch budget, returning (-1, None) for a fresh
\* trainer.
C12_Original ==
  /\ [][/\ C12_NoEarlyStopping
        /\ (~valid_data /\ pc = "after_train")
             => saved_model_file' = C12_Checkpoint]_vars
  /\ []C12_Returned
  /\ []((~valid_data /\ last \in FitStepNames /\ ~ENABLED FitSteps)
          => pc = "stopped")

\* C12 as amended: without a validation set every trained epoch writes a
\* checkpoint if saved is true and none if it is false, cur_step and
\* best_valid_score never change, and the run either aborts with the error
\* of a not-a-number loss or completes its full epoch budget, returning
\* (-1, None) for a trainer that was not resumed.
C12_NoValidation ==
  /\ [][/\ C12_NoEarlyStopping
        /\ (~valid_data /\ pc = "after_train")
             => IF saved THEN saved_model_file' = C12_Checkpoint
                ELSE UNCHANGED saved_model_file]_vars
  /\ []C12_Returned
  /\ []((~valid_data /\ last \in FitStepNames /\ ~ENABLED FitSteps)
          => (pc = "stopped" \/ (pc = "raised" /\ last = "nan")))
  /\ ((~valid_data /\ InFit)
        ~> (pc = "stopped" \/ (pc = "raised" /\ last = "nan")))

\* C12 witness: a fresh trainer without validation data trained its whole
\* budget and left the checkpoint of its last epoch.
C12_Witness ==
  /\ ~valid_data /\ cfg_eval_step > 0 /\ saved /\ pc = "stopped"
  /\ ~resumed /\ trained = 3
  /\ saved_model_file # None /\ saved_model_file[1].epoch = 2
  /\ best_valid_score = -1 /\ best_valid_result = None

\* the checkpoint on disk records an improvement made at epoch e: cur_step 0
\* and the trainer's best_valid_score
C13_Records(file, e) ==
  /\ file # None
  /\ file[1].epoch = e
  /\ file[1].cur_step = 0
  /\ file[1].best_valid_score = best_valid_score'

\* what C13 says of the steps of fit under the condition cond: the step
\* after an evaluation writes the checkpoint of the current epoch if that
\* evaluation made its score the best (and so reset cur_step), and no other
\* step writes the file
C13_Steps(cond) ==
  (cond /\ last' \in FitStepNames) =>
    IF last' = "update" /\ cur_step = 0 /\ best_valid_score = valid_score
    THEN C13_Records(saved_model_file', epoch_idx)
    ELSE UNCHANGED saved_model_file

\* after an evaluation the checkpoint on disk, if there is one, holds
\* cur_step = 0 and the trainer's best_valid_score
C13_OnDisk(cond) ==
  (cond /\ pc \in {"callback", "break", "train", "after_train", "stopped"}
        /\ last \in FitStepNames /\ saved_model_file # None) =>
    /\ saved_model_file[1].cur_step = 0
    /\ saved_model_file[1].best_valid_score = best_valid_score

\* C13 as stated: with validation data and saved=True the checkpoint file is
\* written whenever the current epoch becomes the new best, and only then;
\* the checkpoint on disk records the epoch of the most recent improvement,
\* cur_step = 0 and the trainer's current best_valid_score.
C13_Original ==
  /\ [][C13_Steps(valid_data /\ saved)]_vars
  /\ []C13_OnDisk(valid_data /\ saved)

\* C13 as amended: the same, for a fit that has epochs to train
\* (start_epoch < epochs) and evaluates (eval_step > 0).
C13_CheckpointOnBest ==
  /\ [][C13_Steps(valid_data /\ saved /\ eval_step > 0
                  /\ start_epoch < epochs)]_vars
  /\ []C13_OnDisk(valid_data /\ saved /\ eval_step > 0
                  /\ start_epoch < epochs)

\* C13 witness: the second evaluation of a run did not improve; the
\* checkpoint on disk is that of the first.
C13_Witness ==
  /\ valid_data /\ saved /\ pc = "callback" /\ evals = 2 /\ ~update_flag
  /\ saved_model_file # None
  /\ saved_model_file[1].epoch = epoch_idx - eval_step
  /\ saved_model_file[1].best_valid_score = best_valid_score

\* C15: evaluate with load_best_model=True restores only the model state
\* from the checkpoint: the model state becomes that of the checkpoint file
\* (the trainer's own or the model_file given), and optimizer state,
\* start_epoch, cur_step, best_valid_score and best_valid_result of the
\* trainer are left unchanged.
C15_LoadBestOnlyModel ==
  [][last' = "evaluate" =>
       /\ \E file \in {saved_model_file, resume_file} :
            file # None /\ model_state' = file[1].state_dict
       /\ UNCHANGED <<optimizer_state, start_epoch, cur_step,
                      best_valid_score, best_valid_result>>]_vars

\* C15 witness: after a fit that stopped early, evaluate loaded a checkpoint
\* whose model state, optimizer state, cur_step and epoch all differ from
\* the trainer's.
C15_Witness ==
  /\ last = "evaluate" /\ pc = "evaluated" /\ saved_model_file # None
  /\ model_state = saved_model_file[1].state_dict
  /\ after_step.model # model_state
  /\ optimizer_state = after_step.optimizer
  /\ saved_model_file[1].optimizer # optimizer_state
  /\ saved_model_file[1].cur_step # cur_step
  /\ saved_model_file[1].epoch + 1 # start_epoch

\* the steps of a training epoch
C17_TrainStepNames ==
  {"zero_grad", "loss", "check_nan", "nan", "backward", "step"}

\* the score just evaluated does not improve on the best before it
C17_NoImprovement ==
  IF valid_metric_bigger THEN valid_score' <= best_valid_score
  ELSE valid_score' >= best_valid_score

\* C17: the best_* fields are updated only on validation improvement: an
\* evaluation in fit that does not improve the score leaves
\* best_valid_score, best_valid_result and the checkpoint file unchanged
\* (in the evaluation itself and in the update step that follows it), and
\* the steps of a training epoch never change them.
C17_BestOnlyOnImprovement ==
  [][/\ (last' = "valid" /\ C17_NoImprovement)
          => UNCHANGED <<best_valid_score, best_valid_result,
                         saved_model_file>>
     /\ (last' = "update" /\ cur_step > 0)
          => UNCHANGED <<best_valid_score, best_valid_result,
                         saved_model_file>>
     /\ last' \in C17_TrainStepNames
          => UNCHANGED <<best_valid_score, best_valid_result,
                         saved_model_file>>]_vars

\* C17 witness: after an improvement was saved, a later evaluation did not
\* improve and its update step is done.
C17_Witness ==
  /\ last = "update" /\ ~update_flag /\ cur_step = 1 /\ evals >= 2
  /\ saved_model_file # None /\ best_valid_result # None
  /\ best_valid_result[1].epoch < epoch_idx
  /\ saved_model_file[1].epoch < epoch_idx

\* a trainer of the class cls that the program builds gets through its
\* constructor, so that fit can run its epochs
Constructed(cls) ==
  (variant = cls /\ pc # "new") => last # "TypeError"

\* epoch indices of the schedules examined
ScheduleEpochs == 0..(3 * MaxBlock)

\* epoch lies in a block of rec recommendation epochs, the blocks starting
\* every rec + kg epochs from epoch 0
InRecBlock(epoch, rec, kg) ==
  \E q \in 0..epoch :
    q * (rec + kg) <= epoch /\ epoch < q * (rec + kg) + rec

\* C18: a KGTrainer with both block lengths set trains, in epoch epoch_idx,
\* the recommendation task iff epoch_idx mod (train_rec_step +
\* train_kg_step) < train_rec_step and the knowledge task otherwise, so that
\* the epochs form blocks of train_rec_step recommendation epochs followed
\* by train_kg_step knowledge epochs; with a block length unset every epoch
\* runs the combined mode.
C18_AlternatingBlocks ==
  /\ Constructed("KGTrainer")
  /\ \A e \in ScheduleEpochs : \A rec, kg \in 1..MaxBlock :
       LET passes == KGTrainer_train_epoch(e, Some(rec), Some(kg))
       IN /\ Len(passes) = 1
          /\ passes[1].mode = IF InRecBlock(e, rec, kg) THEN "RS" ELSE "KG"
          /\ passes[1].loss_func = IF InRecBlock(e, rec, kg)
                                   THEN "calculate_loss"
                                   ELSE "calculate_kg_loss"
  /\ \A e \in ScheduleEpochs :
       \A rec, kg \in {None} \cup {Some(n) : n \in 1..MaxBlock} :
         (rec = None \/ kg = None) =>
           KGTrainer_train_epoch(e, rec, kg) =
             <<[mode |-> "RSKG", loss_func |-> "calculate_loss",
                steps |-> TRUE]>>

\* C19: an MKRTrainer trains the recommendation loss in every epoch, and the
\* knowledge loss in epoch epoch_idx iff epoch_idx mod kge_interval = 0,
\* after the recommendation pass of that epoch.
C19_PeriodicKnowledge ==
  /\ Constructed("MKRTrainer")
  /\ \A e \in ScheduleEpochs : \A interval \in 1..MaxInterval :
       LET passes == MKRTrainer_train_epoch(e, interval)
           knowledge == {i \in DOMAIN passes : passes[i].mode = "KG"}
       IN /\ passes[1].mode = "RS"
          /\ \A i \in DOMAIN passes : i > 1 => passes[i].mode = "KG"
          /\ knowledge # {} <=> (\E q \in 0..e : q * interval = e)
          /\ Cardinality(knowledge) <= 1

\* C20: a KGATTrainer runs in every epoch, in this order, one full
\* recommendation-loss pass, one full knowledge-loss pass and then exactly
\* one recomputation of the attention matrix that applies no optimizer step.
C20_JointUpdate ==
  /\ Constructed("KGATTrainer")
  /\ \A e \in ScheduleEpochs :
       LET passes == KGATTrainer_train_epoch(e)
       IN /\ Len(passes) = 3
          /\ passes[1].mode = "RS" /\ passes[1].steps
          /\ passes[2].mode = "KG" /\ passes[2].steps
          /\ passes[3].loss_func = "update_attentive_A"
          /\ ~passes[3].steps

\* C21: S3RecTrainer.fit with train_stage 'pretrain' trains every epoch of
\* the budget with no validation evaluation and no early stopping, never
\* writes the trainer's 'best' checkpoint file, and writes a separate
\* checkpoint named <model>-<dataset>-<epoch_idx+1> exactly after the epochs
\* where (epoch_idx + 1) is a multiple of save_step.
C21_Pretraining ==
  /\ Constructed("S3RecTrainer")
  /\ S3RecTrainer_fit("pretrain") = "pretrain"
  /\ \A start \in 0..MaxEpochs : \A budget \in 0..MaxEpochs :
       \A save_step \in 1..MaxSaveStep :
         LET run == S3RecTrainer_pretrain(start, budget, save_step)
         IN /\ Len(run) = Max(budget - start, 0)
            /\ \A k \in DOMAIN run :
                 /\ run[k].epoch = start + k - 1
                 /\ ~run[k].evaluated /\ ~run[k].best_file_written
                 /\ run[k].written # None
                      <=> \E q \in 1..(run[k].epoch + 1) :
                            q * save_step = run[k].epoch + 1
                 /\ run[k].written # None
                      => run[k].written[1].file =
                           <<model_name, "dataset", run[k].epoch + 1>>

\* C22: a train_stage that is neither 'pretrain' nor 'finetune' makes
\* S3RecTrainer.fit raise a configuration-validation failure before any
\* training: no training epoch runs, no optimizer step is applied and no
\* checkpoint is written.
C22_InvalidStage ==
  /\ Constructed("S3RecTrainer")
  /\ \A stage \in TrainStages :
       stage \notin {"pretrain", "finetune"}
         <=> S3RecTrainer_fit(stage) = "ValueError"
  /\ (variant = "S3RecTrainer" /\ pc = "raised")
       => (trained = 0 /\ nsteps = 0 /\ saved_model_file = None)

\* the step is the call of an evaluation method without evaluation data
CallWithoutData ==
  /\ pc = "stopped" /\ pc' # "stopped"
  /\ eval_call' # None /\ ~eval_call'[1].eval_data

\* C26: evaluate, evaluate_pop and dis_evaluate called without evaluation
\* data return None at once and leave the trainer and the model as they
\* were: no checkpoint is loaded, the model's train/eval mode is not
\* switched and the evaluator is not called.
C26_SilentSkip ==
  [][CallWithoutData =>
       /\ last' = "no_data" /\ pc' = "evaluated"
       /\ UNCHANGED <<trainerVars, fileVars, model_mode, evaluator_calls>>
    ]_vars

C26_Witness ==
  /\ last = "no_data" /\ eval_call # None
  /\ eval_call[1].fn = "dis_evaluate"
  /\ saved_model_file # None
  /\ model_mode = "train"
  /\ saved_model_file[1].state_dict # model_state

(***************************************************************************)
(* One call of fit on a new Trainer, with or without a callback and with   *)
(* or without gradient clipping.                                           *)
(***************************************************************************)
InitFit ==
  /\ variant = "Trainer"
  /\ cfg_epochs \in 0..MaxEpochs
  /\ cfg_eval_step \in 0..MaxEvalStep
  /\ stopping_step \in 0..MaxPatience
  /\ valid_metric_bigger \in BOOLEAN
  /\ valid_data \in BOOLEAN
  /\ saved \in BOOLEAN
  /\ model_name = "BPR"
  /\ callback_fn \in BOOLEAN
  /\ clip_grad_norm \in BOOLEAN
  /\ NoTrainer
  /\ IdleEval /\ IdlePop /\ IdleSave /\ IdleAux

NextFit == NewTrainer \/ FitSteps

SpecFit == InitFit /\ [][NextFit]_vars

\* the callbacks made so far in this fit, for the evaluations made so far
CallbacksMade ==
  IF ~callback_fn THEN callbacks = 0 /\ callback_args = None
  ELSE IF pc \in {"update", "callback"} THEN callbacks = evals - 1
  ELSE callbacks = evals

\* C27: on each evaluation of fit the steps happen in this order: validation
\* score computed, early-stopping check, checkpoint written if improved,
\* callback invoked with (epoch_idx, valid_score), loop broken if stop was
\* signalled; the callback is invoked exactly once per evaluation, the one
\* that stops the run included, and always after the checkpoint write of
\* that evaluation.
C27_EvaluationOrder ==
  [][/\ CallbacksMade'
     /\ (pc' = "update" /\ pc # "update") =>
          /\ pc = "after_train" /\ last' = "valid"
          /\ evals' = evals + 1
          /\ UNCHANGED <<saved_model_file, callbacks, callback_args>>
     /\ (pc = "update" /\ pc' # "update") =>
          /\ pc' = "callback" /\ last' = "update"
          /\ saved_model_file' # saved_model_file => update_flag /\ saved
          /\ UNCHANGED <<callbacks, callback_args, valid_score, stop_flag>>
     /\ (pc = "callback" /\ pc' # "callback") =>
          /\ pc' = "break" /\ last' = "callback"
          /\ callback_fn =>
               /\ callbacks' = callbacks + 1
               /\ callback_args' = Some(<<epoch_idx, valid_score>>)
          /\ UNCHANGED <<saved_model_file, stop_flag, epoch_idx>>
     /\ (pc = "break" /\ pc' # "break") =>
          /\ last' = "break"
          /\ pc' = "stopped" \/ (~stop_flag /\ pc' = "train")
          /\ UNCHANGED <<saved_model_file, callbacks, callback_args>>
    ]_vars

\* the run was stopped by an evaluation that improved nothing, after an
\* evaluation whose checkpoint was written; the callback was called at both
C27_Witness ==
  /\ pc = "stopped" /\ last = "break" /\ stop_flag /\ callback_fn
  /\ evals >= 2 /\ callbacks = evals
  /\ callback_args = Some(<<epoch_idx, valid_score>>)
  /\ saved_model_file # None

\* the optimizer steps applied so far in this fit
StepsApplied ==
  IF pc = "train" THEN nsteps = trained * NBatches + batch_idx
  ELSE pc \in {"after_train", "update", "callback", "break", "stopped"}
         => nsteps = trained * NBatches

\* C28: in _train_epoch every batch is the sequence zero gradients, compute
\* loss, NaN check, backpropagate, optional gradient clipping, optimizer
\* step; an epoch over N batches without a NaN loss applies exactly N
\* optimizer steps, one per batch in iteration order, and touches none of
\* cur_step, best_valid_score and start_epoch.
C28_BatchSequence ==
  [][/\ StepsApplied'
     /\ (pc = "train" /\ <<bpc, batch_idx>>' # <<bpc, batch_idx>>) =>
          /\ UNCHANGED <<cur_step, best_valid_score, start_epoch>>
          /\ CASE bpc = "zero_grad" ->
                    bpc' = "loss" /\ grad' = "zero" /\ UNCHANGED nsteps
               [] bpc = "loss" -> bpc' = "check_nan" /\ UNCHANGED nsteps
               [] bpc = "check_nan" ->
                    /\ UNCHANGED <<nsteps, model_state, optimizer_state>>
                    /\ IF loss = "nan" THEN pc' = "raised"
                       ELSE bpc' = "backward"
               [] bpc = "backward" ->
                    /\ bpc' = "step" /\ UNCHANGED nsteps
                    /\ grad' = IF clip_grad_norm THEN "clipped" ELSE "fresh"
               [] bpc = "step" ->
                    /\ nsteps' = nsteps + 1
                    /\ model_state' = model_state + 1
                    /\ grad \in {"fresh", "clipped"}
                    /\ IF batch_idx + 1 < NBatches
                       THEN bpc' = "zero_grad" /\ batch_idx' = batch_idx + 1
                       ELSE pc' = "after_train" /\ trained' = trained + 1
    ]_vars

\* two epochs of NBatches batches each were trained with gradient clipping
C28_Witness ==
  /\ pc = "after_train" /\ last = "step" /\ clip_grad_norm
  /\ trained = 2 /\ nsteps = 2 * NBatches /\ grad = "clipped"

\* C32: after fit has run with validation data, saved=True and at least one
\* evaluation, the trainer's checkpoint file exists, for either polarity of
\* the metric and any validation scores, so that a following
\* evaluate(load_best_model=True) finds a checkpoint to load.
C32_CheckpointAfterFit ==
  (pc = "stopped" /\ valid_data /\ saved /\ evals >= 1)
    => saved_model_file # None

\* C33: for every trainer variant eval_step <= epochs holds after
\* construction, so a run from start_epoch 0 with validation data and
\* eval_step > 0 makes at least one validation evaluation before it
\* finishes; this includes TraditionalTrainer, whose epoch budget is 1.
C33_AtLeastOneEvaluation ==
  /\ Constructed(variant)
  /\ (pc # "new" /\ last # "TypeError") => eval_step <= epochs
  /\ (pc = "stopped" /\ ~resumed /\ valid_data /\ eval_step > 0)
       => evals >= 1

\* C36: the pair fit returns is consistent: best_valid_result is the result
\* of the evaluation that produced best_valid_score, in every run including
\* one started after resume_checkpoint; best_valid_result is None only
\* while best_valid_score still has its initial value -1.
C36_ReturnedPair ==
  (pc = "stopped" /\ last \in FitStepNames) =>
    /\ best_valid_result # None =>
         calculate_valid_score(best_valid_result[1]) = best_valid_score
    /\ best_valid_result = None => best_valid_score = -1

(***************************************************************************)
(* fit_dis (lines 250-316). Its lines are those of fit except for the      *)
(* evaluation (lines 274-280), which calls dis_evaluate on the validation  *)
(* and the test data with the argument writer=writer. No name writer is    *)
(* bound in fit_dis or in the module, so evaluating the arguments of the   *)
(* first call raises NameError and the lines after it (281-315) never run. *)
(***************************************************************************)
\* lines 274-276: the evaluation is due; the call of dis_evaluate raises
FitDisEvaluate ==
  /\ pc = "after_train"
  /\ ~NoEvaluation
  /\ EvalDue(epoch_idx)
  /\ pc' = "raised" /\ last' = "NameError"
  /\ NoSave
  /\ UNCHANGED <<cur_step, best_valid_score, best_valid_result, valid_score,
                 valid_result, stop_flag, update_flag, evals, epoch_idx,
                 batch_idx, bpc, model_mode, evaluator_calls, callbacks,
                 callback_args>>
  /\ FitFrame

\* fit_dis on a new Trainer: lines 252-273 are the lines 334-355 of fit
NextFitDis ==
  \/ NewTrainer \/ FitStart \/ TrainSteps
  \/ FitNoValid \/ FitSkipEval \/ FitDisEvaluate

SpecFitDis == InitFit /\ [][NextFitDis]_vars

\* C37: fit_dis runs the same train / evaluate / early-stop / checkpoint
\* sequence as fit: whenever (epoch_idx + 1) is a multiple of eval_step it
\* completes an evaluation of the validation and the test data, and the
\* resulting best_valid_score, cur_step, stop decision and checkpoint depend
\* only on the validation score, never on the test score.
C37_FitDisEvaluates ==
  [][(pc = "after_train" /\ ~NoEvaluation /\ EvalDue(epoch_idx)
        /\ pc' # "after_train")
       => \E s \in Scores :
            LET es == FitEarlyStopping(s)
            IN /\ pc' = "update" /\ evals' = evals + 1
               /\ valid_score' = s
               /\ best_valid_score' = es.best
               /\ cur_step' = es.cur_step
               /\ stop_flag' = es.stop_flag
               /\ update_flag' = es.update_flag
    ]_vars

(***************************************************************************)
(* _full_sort_batch_eval and _full_sort_batch_eval_pop (lines 399-456).    *)
(* A score matrix is a function from the rows (users of the batch) to the  *)
(* columns (item ids, 0 being the sentinel item).                          *)
(***************************************************************************)
\* -np.inf: below every score the model predicts
NegInf == -1

Rows == 0..(EvalUsers - 1)
Cols == 0..(EvalItems - 1)

\* the subsets of S with at most two elements
UpToTwo(S) == {{}} \cup {{x, y} : x \in S, y \in S}

\* what full_sort_predict returns, viewed as rows of tot_item_num scores:
\* finite scores, every position its own score, ascending or descending
PredictedSet ==
  {[r \in Rows |-> [c \in Cols |-> 1 + r * EvalItems + c]],
   [r \in Rows |-> [c \in Cols |-> EvalUsers * EvalItems - r * EvalItems - c]]}

\* history_index: None, or (row, column) positions, here at most two
HistorySet == {None} \cup {Some(h) : h \in UpToTwo(Rows \X Cols)}

\* a swap instruction: the entries at one position of the tensors swap_row,
\* swap_col_after, swap_col_before
Instr == [row : Rows, after : Cols, before : Cols]

\* an index assignment writes each position once: no two instructions of a
\* correction have the same (row, after)
TargetsDistinct(S) ==
  \A i, j \in S : (i.row = j.row /\ i.after = j.after) => i = j

\* the two corrections of a batch, here of at most two instructions in all
CorrectionPairs ==
  LET one == {S \in UpToTwo(Instr) : TargetsDistinct(S)}
  IN {<<S, {}>> : S \in one} \cup {<<{}, S>> : S \in one}
       \cup {<<{i}, {j}>> : i \in Instr, j \in Instr}

\* scores[idx] = v for a set idx of (row, column) positions
RECURSIVE IndexPut(_, _, _)
IndexPut(m, idx, v) ==
  IF idx = {} THEN m
  ELSE LET p == CHOOSE q \in idx : TRUE
       IN IndexPut([m EXCEPT ![p[1]][p[2]] = v], idx \ {p}, v)

\* a masking that leaves the sentinel column as it is
MaskNoSentinel(m) == m

\* line 422: scores[:, 0] = -np.inf
MaskSentinel(m) == [r \in DOMAIN m |-> [m[r] EXCEPT ![0] = NegInf]]

\* an index that is read as row numbers only: whole rows are overwritten
MaskHistoryRows(m, h) ==
  [r \in DOMAIN m |->
     IF \E p \in h : p[1] = r THEN [c \in DOMAIN m[r] |-> NegInf] ELSE m[r]]

\* line 424: scores[history_index] = -np.inf
MaskHistory(m, h) == IndexPut(m, h, NegInf)

\* lines 419-424
Masked(m, history) ==
  LET s == MaskSentinel(m)
  IN IF history # None THEN MaskHistory(s, history[1]) ELSE s

\* the instructions applied one after the other, each reading the matrix the
\* earlier ones have written
RECURSIVE ApplyCorrectionInPlace(_, _)
ApplyCorrectionInPlace(m, S) ==
  IF S = {} THEN m
  ELSE LET i == CHOOSE j \in S : TRUE
       IN ApplyCorrectionInPlace(
            [m EXCEPT ![i.row][i.after] = m[i.row][i.before]], S \ {i})

\* lines 436, 437: scores[swap_row, swap_col_after] =
\* tmp_scores[swap_row, swap_col_before]: the right-hand side is gathered
\* from the matrix first, then written to the targets
ApplyCorrection(m, S) ==
  LET gathered == [i \in S |-> m[i.row][i.before]]
  IN [r \in DOMAIN m |->
        [c \in DOMAIN m[r] |->
           IF \E i \in S : i.row = r /\ i.after = c
           THEN gathered[CHOOSE i \in S : i.row = r /\ i.after = c]
           ELSE m[r][c]]]

InitEval ==
  /\ IdleLife /\ IdlePop /\ IdleSave /\ IdleAux
  /\ epc = "call"
  /\ predicted \in PredictedSet
  /\ history_index \in HistorySet
  /\ \E cp \in CorrectionPairs : swap1 = cp[1] /\ swap2 = cp[2]
  /\ masked = <<>> /\ corrected1 = <<>> /\ scores = <<>>

\* _full_sort_batch_eval (lines 399-439). tmp_scores (line 434) is the
\* tensor scores itself, not a copy: the second correction reads what the
\* first has written.
FullSortBatchEval ==
  /\ epc = "call"
  /\ LET s == Masked(predicted, history_index)
         first == ApplyCorrection(s, swap1)
         second == ApplyCorrection(first, swap2)
     IN /\ masked' = s
        /\ corrected1' = first
        /\ scores' = second
  /\ epc' = "returned"
  /\ UNCHANGED <<predicted, history_index, swap1, swap2, lifeVars, popVars,
                 saveVars, auxVars>>

\* _full_sort_batch_eval_pop (lines 441-456): the masking alone
FullSortBatchEvalPop ==
  /\ epc = "call"
  /\ LET s == Masked(predicted, history_index)
     IN /\ masked' = s
        /\ corrected1' = s
        /\ scores' = s
  /\ epc' = "returned_pop"
  /\ UNCHANGED <<predicted, history_index, swap1, swap2, lifeVars, popVars,
                 saveVars, auxVars>>

NextEval == FullSortBatchEval \/ FullSortBatchEvalPop

SpecEval == InitEval /\ [][NextEval]_vars

(***************************************************************************)
(* Properties of the full-ranking evaluation.                              *)
(***************************************************************************)
InHistory(r, c) == history_index # None /\ <<r, c>> \in history_index[1]

\* C6: after the masking step of _full_sort_batch_eval and of
\* _full_sort_batch_eval_pop, column 0 of every row and every (row, column)
\* of the history index hold negative infinity and every other position
\* holds the score the model predicted.
C6_Masking ==
  epc \in {"returned", "returned_pop"} =>
    \A r \in Rows : \A c \in Cols :
      masked[r][c] = IF c = 0 \/ InHistory(r, c) THEN NegInf
                     ELSE predicted[r][c]

\* C6 witness: a history position outside column 0 was masked in a row, the
\* same column of another row was not.
C6_Witness ==
  /\ epc = "returned"
  /\ \E r1, r2 \in Rows : \E c \in Cols :
       /\ c # 0 /\ r1 # r2 /\ InHistory(r1, c)
       /\ masked[r1][c] = NegInf /\ masked[r2][c] = predicted[r2][c]

\* C7: for every swap instruction (row, before, after) of a correction,
\* after the correction scores[row][after] is the value scores[row][before]
\* held before the correction, in whatever order the instructions of the
\* correction are taken.
C7_SwapCorrection ==
  epc = "returned" =>
    /\ \A i \in swap1 :
         corrected1[i.row][i.after] = masked[i.row][i.before]
    /\ \A i \in swap2 :
         scores[i.row][i.after] = corrected1[i.row][i.before]

\* C7 witness: a correction exchanged two columns of a row that held
\* different scores.
C7_Witness ==
  /\ epc = "returned"
  /\ \E i, j \in swap1 :
       /\ i.row = j.row /\ i.after = j.before /\ i.before = j.after
       /\ i.after # i.before
       /\ masked[i.row][i.before] # masked[i.row][i.after]
       /\ corrected1[i.row][i.after] = masked[i.row][i.before]
       /\ corrected1[j.row][j.after] = masked[j.row][j.before]

\* C30: the two column-swap corrections of _full_sort_batch_eval are
\* independent: the scores the second correction copies are the values the
\* matrix held after masking and before the first correction, so the final
\* matrix is the same whichever of the two corrections is applied first.
C30_IndependentCorrections ==
  epc = "returned" =>
    /\ \A i \in swap2 : scores[i.row][i.after] = masked[i.row][i.before]
    /\ (\A i \in swap1 : \A j \in swap2 :
          ~(i.row = j.row /\ i.after = j.after))
         => scores = ApplyCorrection(ApplyCorrection(masked, swap2), swap1)

\* the positions _full_sort_batch_eval masks: column 0 and the history
MaskedPositions ==
  {p \in Rows \X Cols :
     p[2] = 0 \/ (history_index # None /\ p \in history_index[1])}

\* the positions a correction writes
Targets(S) == {<<i.row, i.after>> : i \in S}

\* the original statement of C31: every masked position of the returned
\* matrix holds negative infinity
C31_Original ==
  epc = "returned" => \A p \in MaskedPositions : scores[p[1]][p[2]] = NegInf

\* C31 (amended): in the matrix _full_sort_batch_eval returns, the sentinel
\* column and the history items that no swap instruction targets hold
\* negative infinity; a position a correction targets holds the score of
\* the instruction's source column, masked or not.
C31_MaskedUnlessSwapped ==
  epc = "returned" =>
    /\ \A p \in MaskedPositions :
         /\ masked[p[1]][p[2]] = NegInf
         /\ p \notin Targets(swap1 \cup swap2) => scores[p[1]][p[2]] = NegInf
    /\ \A i \in swap2 : scores[i.row][i.after] = corrected1[i.row][i.before]
    /\ \A i \in swap1 :
         <<i.row, i.after>> \notin Targets(swap2)
           => scores[i.row][i.after] = masked[i.row][i.before]

\* a correction gave the sentinel column of a row a finite score while a
\* history position of the batch kept negative infinity
C31_Witness ==
  /\ epc = "returned" /\ history_index # None
  /\ \E p \in MaskedPositions : p[2] = 0 /\ scores[p[1]][p[2]] # NegInf
  /\ \E p \in MaskedPositions : p[2] # 0 /\ scores[p[1]][p[2]] = NegInf

(***************************************************************************)
(* get_threshes and the bucket loop of evaluate_pop (lines 647-692).       *)
(* item_popularity is the sequence of the items' popularities, item id i   *)
(* at position i + 1.                                                      *)
(***************************************************************************)
\* line 664: the upper bound of the last bucket
PopCap == 100000

\* popularities an item may have: small counts, and one above PopCap
Pops == (0..MaxPop) \cup {PopCap + 1}

RECURSIVE SeqsUpTo(_, _)
SeqsUpTo(S, n) ==
  IF n = 0 THEN {<<>>}
  ELSE LET P == SeqsUpTo(S, n - 1)
       IN P \cup {Append(p, x) : p \in {q \in P : Len(q) = n - 1}, x \in S}

PopularityTables == SeqsUpTo(Pops, MaxPopItems) \ {<<>>}

\* x put before the first element of an ascending sequence that exceeds it
RECURSIVE Insert(_, _)
Insert(x, s) ==
  IF s = <<>> THEN <<x>>
  ELSE IF x <= Head(s) THEN <<x>> \o s
  ELSE <<Head(s)>> \o Insert(x, Tail(s))

\* line 686: sorted(self.item_popularity)
RECURSIVE sorted(_)
sorted(s) == IF s = <<>> THEN <<>> ELSE Insert(Head(s), sorted(Tail(s)))

\* get_threshes (lines 684-692): idx = int(i * (len / n_class)); in the
\* table sizes and class numbers of this model the floating-point product
\* truncates to the integer quotient of i * len by n_class
get_threshes(pop, n_class) ==
  LET item_p == sorted(pop)
  IN [i \in 1..(n_class - 1) |->
        item_p[((i * Len(item_p)) \div n_class) + 1]]

\* lines 662-671: the first bucket n with min_pop < i_pop <= max_pop, None
\* when the loop ends without a break
BucketOf(i_pop, th, n_class) ==
  LET min_pop(n) == IF n > 0 THEN th[n] ELSE 0
      max_pop(n) == IF n < n_class - 1 THEN th[n + 1] ELSE PopCap
      hit == {n \in 0..(n_class - 1) :
                i_pop > min_pop(n) /\ i_pop <= max_pop(n)}
  IN IF hit = {} THEN None
     ELSE Some(CHOOSE n \in hit : \A m \in hit : n <= m)

\* the counters and results evaluate_pop has not set yet
NoPopResults ==
  /\ threshes = <<>> /\ topk_item = 0 /\ bucket = None
  /\ rec_num_list = <<>> /\ ranked = 0
  /\ rec_pos_score = <<>> /\ rec_pos_num = <<>> /\ rec_mean_score = <<>>
  /\ user_pos_num = <<>>

\* one batch of one user without held-out positives, any popularity table
InitPop ==
  /\ IdleLife /\ IdleEval /\ IdleSave /\ IdleAux
  /\ ppc = "call"
  /\ item_popularity \in PopularityTables
  /\ p_class \in 1..MaxClass
  /\ max_topk \in 1..MaxTopk
  /\ positions = max_topk
  /\ batch_rows = 1
  /\ positive_items = [u \in 1..1 |-> {}]
  /\ NoPopResults

\* the users of eval_data: the user ids 1..n in the order of their rows
NumUsers == positions \div max_topk

\* the position of topk_idx the loops of lines 660-661 are at: the row of
\* the evaluation data, the row i within its batch, and the user the row
\* belongs to
DataRow == ranked \div max_topk
BatchRow == DataRow % batch_rows
RowUser == DataRow + 1

\* line 668: the positives the item is looked up in
LookedUpPositives(i) == positive_items[i + 1]

\* lines 675-679: the quotient a / b, kept as the pair of its terms
Quotient(a, b) == <<a, b>>

\* evaluate_pop, lines 647-651
EvaluatePopStart ==
  /\ ppc = "call"
  /\ rec_num_list' = [n \in 1..p_class |-> 0]
  /\ rec_pos_score' = [n \in 1..p_class |-> 0]
  /\ rec_pos_num' = [n \in 1..p_class |-> 0]
  /\ rec_mean_score' = [n \in 1..p_class |-> Quotient(0, 1)]
  /\ user_pos_num' = [n \in 1..p_class |-> 0]
  /\ threshes' = get_threshes(item_popularity, p_class)
  /\ ppc' = "loop"
  /\ UNCHANGED <<item_popularity, p_class, positions, topk_item, bucket,
                 ranked, max_topk, batch_rows, positive_items,
                 lifeVars, evalVars, saveVars, auxVars>>

\* evaluate_pop, lines 660-671: one position of topk_idx; the item there is
\* whichever item the model's scores rank at that position, with whatever
\* score
EvaluatePopItem ==
  /\ ppc = "loop" /\ ranked < positions
  /\ \E item \in 0..(Len(item_popularity) - 1) :
       LET i_pop == item_popularity[item + 1]
           b == BucketOf(i_pop, threshes, p_class)
           hit == b # None /\ item \in LookedUpPositives(BatchRow)
           own == b # None /\ item \in positive_items[RowUser]
       IN /\ topk_item' = item
          /\ bucket' = b
          /\ rec_num_list' =
               IF b = None THEN rec_num_list
               ELSE [rec_num_list EXCEPT ![b[1] + 1] = @ + 1]
          /\ rec_pos_num' =
               IF hit THEN [rec_pos_num EXCEPT ![b[1] + 1] = @ + 1]
               ELSE rec_pos_num
          /\ \E s \in IF hit THEN 1..MaxScore ELSE {0} :
               rec_pos_score' =
                 IF hit THEN [rec_pos_score EXCEPT ![b[1] + 1] = @ + s]
                 ELSE rec_pos_score
          /\ user_pos_num' =
               IF own THEN [user_pos_num EXCEPT ![b[1] + 1] = @ + 1]
               ELSE user_pos_num
  /\ ranked' = ranked + 1
  /\ UNCHANGED <<ppc, item_popularity, p_class, positions, threshes,
                 max_topk, batch_rows, positive_items, rec_mean_score,
                 lifeVars, evalVars, saveVars, auxVars>>

\* evaluate_pop, lines 675-682
EvaluatePopReturn ==
  /\ ppc = "loop" /\ ranked = positions
  /\ rec_mean_score' =
       [n \in 1..p_class |->
          IF rec_pos_num[n] = 0 THEN Quotient(0, 1)
          ELSE Quotient(rec_pos_score[n], rec_pos_num[n])]
  /\ ppc' = "returned"
  /\ UNCHANGED <<item_popularity, p_class, positions, threshes, topk_item,
                 bucket, rec_num_list, ranked, max_topk, batch_rows,
                 positive_items, rec_pos_score, rec_pos_num, user_pos_num,
                 lifeVars, evalVars, saveVars, auxVars>>

NextPop == EvaluatePopStart \/ EvaluatePopItem \/ EvaluatePopReturn

SpecPop == InitPop /\ [][NextPop]_vars

\* the held-out positives of the users: at most one item each, never the
\* sentinel item 0
PositiveSets(n_items) == {{}} \cup {{i} : i \in 1..(n_items - 1)}

\* EvalUsers users in batches of batch_rows rows, item i of popularity i
InitHit ==
  /\ IdleLife /\ IdleEval /\ IdleSave /\ IdleAux
  /\ ppc = "call"
  /\ item_popularity = [i \in 1..EvalItems |-> i - 1]
  /\ p_class \in 1..MaxClass
  /\ max_topk \in 1..MaxTopk
  /\ positions = EvalUsers * max_topk
  /\ batch_rows \in 1..EvalUsers
  /\ positive_items \in [1..EvalUsers -> PositiveSets(EvalItems)]
  /\ NoPopResults

SpecHit == InitHit /\ [][NextPop]_vars

(***************************************************************************)
(* Properties of the popularity buckets.                                   *)
(***************************************************************************)
\* v is the value at 0-based index idx of the ascending-sorted table
AtSortedIndex(v, idx) ==
  LET D == DOMAIN item_popularity
  IN /\ Cardinality({j \in D : item_popularity[j] < v}) <= idx
     /\ idx < Cardinality({j \in D : item_popularity[j] <= v})

\* the popularity of the item last taken from topk_idx
LastPop == item_popularity[topk_item + 1]

\* C9: get_threshes returns the n_class - 1 values found at the indices
\* int(i * L / n_class), i = 1..n_class-1, of the ascending-sorted popularity
\* table, and in evaluate_pop an item whose popularity equals a boundary
\* value is counted in the lower-indexed bucket, the one that has this
\* boundary as its upper bound.
C9_BucketBoundaries ==
  ppc \in {"loop", "returned"} =>
    /\ Len(threshes) = p_class - 1
    /\ \A i \in 1..(p_class - 1) :
         AtSortedIndex(threshes[i], (i * Len(item_popularity)) \div p_class)
    /\ (ranked > 0 /\ \E k \in 1..(p_class - 1) : threshes[k] = LastPop) =>
         /\ bucket # None
         /\ bucket[1] < p_class - 1
         /\ threshes[bucket[1] + 1] = LastPop

RECURSIVE SumSeq(_)
SumSeq(s) == IF s = <<>> THEN 0 ELSE Head(s) + SumSeq(Tail(s))

\* C23: evaluate_pop assigns each top-K recommended item to exactly one
\* bucket, for every popularity value (a popularity of 0 and one above the
\* last threshold included), so the per-bucket recommendation counts sum to
\* the number of recommended items (users times K).
C23_EveryItemCounted ==
  ppc \in {"loop", "returned"} =>
    /\ ranked > 0 => bucket # None
    /\ SumSeq(rec_num_list) = ranked
    /\ ppc = "returned" => SumSeq(rec_num_list) = NumUsers * max_topk

\* C24: over any number of batches, evaluate_pop increments a bucket's hit
\* count exactly when the counted item is a held-out positive of the user
\* whose score row produced the recommendation; a bucket's hit count never
\* exceeds its recommendation count, and its final mean score is the
\* accumulated score divided by the hit count, or 0 without a hit.
C24_HitsOfTheRowUser ==
  ppc \in {"loop", "returned"} =>
    /\ rec_pos_num = user_pos_num
    /\ \A n \in 1..p_class : rec_pos_num[n] <= rec_num_list[n]
    /\ ppc = "returned" =>
         \A n \in 1..p_class :
           rec_mean_score[n] =
             IF rec_pos_num[n] = 0 THEN <<0, 1>>
             ELSE <<rec_pos_score[n], rec_pos_num[n]>>

(***************************************************************************)
(* The write of _save_checkpoint (line 207): torch.save(state, path) opens *)
(* the file at the path for writing, which empties it, writes the entries  *)
(* of the state and closes the file. The process may be stopped anywhere.  *)
(***************************************************************************)
\* the entries of a state dictionary in the order they are written
Serialize(state) ==
  <<state.config, state.epoch, state.cur_step, state.best_valid_score,
    state.state_dict, state.optimizer>>

\* the file of a checkpoint that was written to the end
Encode(file) == IF file = None THEN None ELSE Some(Serialize(file[1]))

\* checkpoints an earlier improvement of the run may have left in the file
EarlierCheckpoints ==
  {[config |-> "BPR", epoch |-> 0, cur_step |-> 0, best_valid_score |-> b,
    state_dict |-> 1, optimizer |-> 1] : b \in Scores}

\* a trainer in fit, at a call of _save_checkpoint(epoch_idx)
InitSave ==
  /\ variant = "Trainer" /\ cfg_epochs = MaxEpochs /\ cfg_eval_step = 1
  /\ stopping_step = MaxPatience /\ valid_metric_bigger = TRUE
  /\ valid_data = TRUE /\ saved = TRUE /\ model_name = "BPR"
  /\ epochs = MaxEpochs /\ eval_step = 1 /\ start_epoch = 0
  /\ cur_step \in 0..MaxPatience
  /\ best_valid_score \in Scores
  /\ best_valid_result = None
  /\ model_state \in 1..2 /\ optimizer_state = model_state
  /\ grad = "fresh"
  /\ saved_model_file \in {None} \cup {Some(c) : c \in EarlierCheckpoints}
  /\ resume_file = None
  /\ pc = "update" /\ epoch_idx \in 1..(MaxEpochs - 1)
  /\ batch_idx = 0 /\ bpc = "none" /\ loss = "none"
  /\ valid_score = best_valid_score /\ valid_result = None
  /\ stop_flag = FALSE /\ update_flag = TRUE
  /\ trained = epoch_idx + 1 /\ evals = epoch_idx + 1
  /\ nsteps = trained * NBatches
  /\ after_step = [model |-> model_state, optimizer |-> optimizer_state]
  /\ snap = NoSnap /\ last = "valid" /\ runs = 1
  /\ warned = FALSE /\ resumed = FALSE
  /\ PlainFit
  /\ model_mode = "eval" /\ eval_call = None /\ evaluator_calls = evals
  /\ callbacks = evals - 1
  /\ callback_args \in {Some(<<epoch_idx - 1, s>>) : s \in Scores}
  /\ IdleEval /\ IdlePop /\ IdleAux
  /\ wpc = "call" /\ disk = Encode(saved_model_file)

SaveFrame ==
  UNCHANGED <<cfgVars, trainerVars, resume_file, fitVars, trained, evals,
              nsteps, after_step, last, runs, warned, resumed, modeVars,
              evalVars, popVars, auxVars>>

\* the file is opened for writing: whatever it held is gone
SaveOpen ==
  /\ wpc = "call"
  /\ disk' = Some(<<>>)
  /\ wpc' = "writing"
  /\ UNCHANGED <<saved_model_file, snap>>
  /\ SaveFrame

\* the next entry of the state reaches the file
SaveWrite ==
  /\ wpc = "writing"
  /\ Len(disk[1]) < Len(Serialize(CheckpointState(epoch_idx)))
  /\ LET entries == Serialize(CheckpointState(epoch_idx))
     IN disk' = Some(Append(disk[1], entries[Len(disk[1]) + 1]))
  /\ UNCHANGED <<wpc, saved_model_file, snap>>
  /\ SaveFrame

\* the last entry is written: the file is closed and torch.save returns
SaveClose ==
  /\ wpc = "writing"
  /\ Len(disk[1]) = Len(Serialize(CheckpointState(epoch_idx)))
  /\ _save_checkpoint(epoch_idx)
  /\ wpc' = "returned"
  /\ UNCHANGED disk
  /\ SaveFrame

\* the process is stopped (a signal, a full disk, a power cut) during the
\* call
SaveInterrupted ==
  /\ wpc \in {"call", "writing"}
  /\ wpc' = "interrupted"
  /\ UNCHANGED <<disk, saved_model_file, snap>>
  /\ SaveFrame

NextSave == SaveOpen \/ SaveWrite \/ SaveClose \/ SaveInterrupted

SpecSave == InitSave /\ [][NextSave]_vars

\* C14: _save_checkpoint(epoch) writes the checkpoint atomically: at any
\* point at which the write can be interrupted, the trainer's checkpoint
\* file holds either the complete previous snapshot or the complete new
\* snapshot {config, epoch, cur_step, best_valid_score, model_state,
\* optimizer_state}, never a partial one.
C14_AtomicSave ==
  wpc \in {"call", "writing", "interrupted", "returned"} =>
    \/ disk = Encode(saved_model_file)
    \/ disk = Some(Serialize(CheckpointState(epoch_idx)))

(***************************************************************************)
(* resume_checkpoint on the checkpoint of another configuration.           *)
(***************************************************************************)
\* names config['model'] may hold
ModelNames == {"BPR", "bpr", "NeuMF"}

\* checkpoints _save_checkpoint may have written under some configuration
ResumeFiles ==
  [config : ModelNames, epoch : (-1)..(MaxEpochs - 1),
   cur_step : 0..MaxPatience, best_valid_score : Scores,
   state_dict : 1..2, optimizer : 1..2]

\* a trainer just built (lines 77-102), and a checkpoint file to resume
InitResume ==
  /\ variant = "Trainer" /\ cfg_epochs = MaxEpochs /\ cfg_eval_step = 1
  /\ stopping_step = MaxPatience /\ valid_metric_bigger = TRUE
  /\ valid_data = TRUE /\ saved = TRUE
  /\ model_name \in ModelNames
  /\ epochs = cfg_epochs /\ eval_step = Min(cfg_eval_step, cfg_epochs)
  /\ start_epoch = 0 /\ cur_step = 0 /\ best_valid_score = -1
  /\ best_valid_result = None
  /\ model_state = 0 /\ optimizer_state = 0 /\ grad = "none"
  /\ saved_model_file = None
  /\ resume_file \in {Some(c) : c \in ResumeFiles}
  /\ pc = "ready" /\ NoLocals
  /\ trained = 0 /\ evals = 0 /\ nsteps = 0 /\ after_step = FreshModel
  /\ snap = NoSnap /\ last = "init" /\ runs = 1
  /\ warned = FALSE /\ resumed = FALSE
  /\ PlainFit /\ NoCalls
  /\ IdleEval /\ IdlePop /\ IdleSave /\ IdleAux

NextResume == resume_checkpoint

SpecResume == InitResume /\ [][NextResume]_vars

\* two model names that differ at most in the case of their letters
C16_SameName(a, b) == a = b \/ {a, b} = {"BPR", "bpr"}

BatchScores == {Masked(m, None) : m \in PredictedSet}

\* the user whose scores are row u of batch b (both counted from 0)
UserOfRow(b, u) == b * EvalUsers + u + 1

\* user_mp and item_mp: the external id at index k is that of the internal
\* id k + 1, here the same number
user_mp == [k \in 0..(MaxRecBatches * EvalUsers) |-> k + 1]
item_mp == [k \in 0..(EvalItems - 2) |-> k + 1]

\* line 597: item_mp[i - 1]; the index -1 is the last element of the list
ItemToken(i) == IF i = 0 THEN item_mp[EvalItems - 2] ELSE item_mp[i - 1]

\* line 591: torch.topk(scores, k, dim=-1) on one row: the k columns of the
\* largest scores, largest first
RECURSIVE TopkFrom(_, _, _)
TopkFrom(row, S, k) ==
  IF k = 0 \/ S = {} THEN <<>>
  ELSE LET best == CHOOSE c \in S : \A d \in S : row[d] <= row[c]
       IN <<best>> \o TopkFrom(row, S \ {best}, k - 1)

topk_idx(row, k) == TopkFrom(row, DOMAIN row, k)

\* line 595: the user written for row u of the batch
WrittenUser(u) == user_mp[u]

\* line 599: the line of row u and rank p (from 0) of a batch
RecLine(batch, u, p) ==
  <<WrittenUser(u), ItemToken(topk_idx(batch[u], rec_topk)[p + 1]), p + 1>>

InitRec ==
  /\ IdleLife /\ IdleEval /\ IdlePop /\ IdleSave /\ IdleSplit /\ IdleCausE
  /\ rpc = "batch"
  /\ rec_data \in SeqsUpTo(BatchScores, MaxRecBatches)
  /\ rec_topk \in 1..MaxTopk
  /\ rec_batch = 0 /\ rec_user = 0 /\ rec_pos = 0
  /\ rec_file = None

RecFrame ==
  UNCHANGED <<rec_data, rec_topk, lifeVars, evalVars, popVars, saveVars,
              splitVars, causeVars>>

\* lines 589-593: the next batch; open(file_path, 'w') empties the file
WriteRecListOpen ==
  /\ rpc = "batch" /\ rec_batch < Len(rec_data)
  /\ rec_file' = Some(<<>>)
  /\ rec_user' = 0 /\ rec_pos' = 0
  /\ rpc' = "write"
  /\ UNCHANGED rec_batch
  /\ RecFrame

\* lines 594-599: one line
WriteRecListLine ==
  /\ rpc = "write" /\ rec_user < EvalUsers
  /\ rec_file' =
       Some(Append(rec_file[1],
                   RecLine(rec_data[rec_batch + 1], rec_user, rec_pos)))
  /\ IF rec_pos + 1 < rec_topk
     THEN rec_pos' = rec_pos + 1 /\ UNCHANGED rec_user
     ELSE rec_pos' = 0 /\ rec_user' = rec_user + 1
  /\ UNCHANGED <<rpc, rec_batch>>
  /\ RecFrame

\* the end of the with block of line 593
WriteRecListClose ==
  /\ rpc = "write" /\ rec_user = EvalUsers
  /\ rec_batch' = rec_batch + 1
  /\ rpc' = "batch"
  /\ UNCHANGED <<rec_user, rec_pos, rec_file>>
  /\ RecFrame

\* the end of the loop of line 589
WriteRecListReturn ==
  /\ rpc = "batch" /\ rec_batch = Len(rec_data)
  /\ rpc' = "returned"
  /\ UNCHANGED <<rec_batch, rec_user, rec_pos, rec_file>>
  /\ RecFrame

NextRec ==
  \/ WriteRecListOpen \/ WriteRecListLine \/ WriteRecListClose
  \/ WriteRecListReturn

SpecRec == InitRec /\ [][NextRec]_vars

\* the lines of the file
RecLines == IF rec_file = None THEN <<>> ELSE rec_file[1]

\* the lines of the file that carry the user id of row u of batch b
LinesOf(b, u) ==
  LET IsUser(line) == line[1] = UserOfRow(b, u)
  IN SelectSeq(RecLines, IsUser)

\* C25: after write_rec_list over evaluation data of any number of batches
\* the file holds, for every user of every batch, exactly top-K lines
\* (user_id, item_id, rank) with the ranks 1..K in descending score order,
\* the user_id being that of the user the scores belong to.
C25_RecListOfEveryUser ==
  rpc = "returned" =>
    /\ Len(RecLines) = Len(rec_data) * EvalUsers * rec_topk
    /\ \A b \in 0..(Len(rec_data) - 1) : \A u \in Rows :
         LinesOf(b, u) =
           [p \in 1..rec_topk |->
              <<UserOfRow(b, u),
                ItemToken(topk_idx(rec_data[b + 1][u], rec_topk)[p]), p>>]

(***************************************************************************)
(* Pointwise evaluation of one batch: evaluate, lines 572-578, and         *)
(* _spilt_predict, lines 694-708. The interaction is the sequence of its   *)
(* rows; the model scores every row by itself.                             *)
(***************************************************************************)
RowValues == 1..MaxScore

\* self.model.predict on rows: one score per row, in the order of the rows
RowScore(x) == 2 * x + 1
predict(rows) == [k \in 1..Len(rows) |-> RowScore(rows[k])]

\* line 697: tensor.split(n, dim=0): consecutive blocks of n rows, the last
\* one of the rows that are left
RECURSIVE split(_, _)
split(t, n) ==
  IF Len(t) <= n THEN <<t>>
  ELSE <<SubSeq(t, 1, n)>> \o split(SubSeq(t, n + 1, Len(t)), n)

\* a block count that drops the last, shorter block
NumBlockFloor(batch_size, limit) == batch_size \div limit

\* line 698: (batch_size + self.test_batch_size - 1) // self.test_batch_size
NumBlock(batch_size, limit) == (batch_size + limit - 1) \div limit

\* line 708: torch.cat(result_list, dim=0)
RECURSIVE cat(_)
cat(list) == IF list = <<>> THEN <<>> ELSE Head(list) \o cat(Tail(list))

InitSplit ==
  /\ IdleLife /\ IdleEval /\ IdlePop /\ IdleSave /\ IdleRec /\ IdleCausE
  /\ spc = "batch"
  /\ interaction \in SeqsUpTo(RowValues, MaxBatchSize) \ {<<>>}
  /\ test_batch_size \in 1..MaxLimit
  /\ spilt_interaction = <<>> /\ num_block = 0 /\ block_i = 0
  /\ result_list = <<>> /\ split_scores = None /\ predict_calls = 0

SplitFrame ==
  UNCHANGED <<interaction, test_batch_size, lifeVars, evalVars, popVars,
              saveVars, recVars, causeVars>>

\* evaluate, lines 574-576: batch_size <= self.test_batch_size
PredictWhole ==
  /\ spc = "batch" /\ Len(interaction) <= test_batch_size
  /\ split_scores' = Some(predict(interaction))
  /\ predict_calls' = predict_calls + 1
  /\ spc' = "done"
  /\ UNCHANGED <<spilt_interaction, num_block, block_i, result_list>>
  /\ SplitFrame

\* evaluate, line 578, and _spilt_predict, lines 695-699
SpiltPredictStart ==
  /\ spc = "batch" /\ Len(interaction) > test_batch_size
  /\ spilt_interaction' = split(interaction, test_batch_size)
  /\ num_block' = NumBlock(Len(interaction), test_batch_size)
  /\ block_i' = 0 /\ result_list' = <<>>
  /\ spc' = "blocks"
  /\ UNCHANGED <<split_scores, predict_calls>>
  /\ SplitFrame

\* _spilt_predict, lines 700-707: block i
SpiltPredictBlock ==
  /\ spc = "blocks" /\ block_i < num_block
  /\ result_list' =
       Append(result_list, predict(spilt_interaction[block_i + 1]))
  /\ predict_calls' = predict_calls + 1
  /\ block_i' = block_i + 1
  /\ UNCHANGED <<spc, spilt_interaction, num_block, split_scores>>
  /\ SplitFrame

\* _spilt_predict, line 708
SpiltPredictReturn ==
  /\ spc = "blocks" /\ block_i = num_block
  /\ split_scores' = Some(cat(result_list))
  /\ spc' = "done"
  /\ UNCHANGED <<spilt_interaction, num_block, block_i, result_list,
                 predict_calls>>
  /\ SplitFrame

NextSplit ==
  \/ PredictWhole \/ SpiltPredictStart \/ SpiltPredictBlock
  \/ SpiltPredictReturn

SpecSplit == InitSplit /\ [][NextSplit]_vars

\* the row of the batch at which block k (from 1) starts, counted from 0
BlockStart(k) == (k - 1) * test_batch_size

\* C29: a pointwise batch of size <= the evaluation batch limit is predicted
\* in one call; a larger batch of size B is split into ceil(B / limit)
\* consecutive sub-batches, each of size <= limit and together covering
\* every row exactly once, and the concatenated scores are in the original
\* row order.
C29_SplitPredict ==
  spc = "done" =>
    LET B == Len(interaction)
        limit == test_batch_size
    IN /\ split_scores = Some([k \in 1..B |-> RowScore(interaction[k])])
       /\ B <= limit => predict_calls = 1 /\ result_list = <<>>
       /\ B > limit =>
            /\ num_block * limit >= B /\ (num_block - 1) * limit < B
            /\ predict_calls = num_block
            /\ Len(result_list) = num_block
            /\ Len(spilt_interaction) = num_block
            /\ \A k \in 1..num_block :
                 LET block == spilt_interaction[k]
                 IN /\ Len(block) >= 1 /\ Len(block) <= limit
                    /\ Len(block) = Min(limit, B - BlockStart(k))
                    /\ \A j \in 1..Len(block) :
                         block[j] = interaction[BlockStart(k) + j]
                    /\ result_list[k] = predict(block)

\* a batch whose last block is shorter than the limit was predicted
C29_Witness ==
  /\ spc = "done" /\ num_block >= 2
  /\ Len(interaction) % test_batch_size # 0
  /\ \E j, k \in 1..Len(interaction) : interaction[j] # interaction[k]
  /\ split_scores = Some(predict(interaction))

\* C34: resume_checkpoint is all-or-nothing: if loading the model state or
\* the optimizer state from the checkpoint fails, the trainer's start_epoch,
\* cur_step and best_valid_score are the same as before the call.
C34_AllOrNothing ==
  [][(last' = "RuntimeError" /\ pc = "ready" /\ pc' = "raised")
       => UNCHANGED <<start_epoch, cur_step, best_valid_score>>]_vars

(***************************************************************************)
(* resume_checkpoint on the files a trainer of the same configuration      *)
(* writes: _save_checkpoint (lines 192-207) and save_pretrained_model      *)
(* (lines 797-811).                                                        *)
(***************************************************************************)
\* the files of _save_checkpoint, the one of epoch -1 included
SavedFiles ==
  [config : {"BPR"}, epoch : (-1)..(MaxEpochs - 1),
   cur_step : 0..MaxPatience, best_valid_score : Scores,
   state_dict : 1..2, optimizer : 1..2]

\* the files of save_pretrained_model
PretrainedFiles ==
  {PretrainedState(e, s, s) : e \in 0..(MaxEpochs - 1), s \in 1..2}

InitWritten ==
  /\ variant = "Trainer" /\ cfg_epochs = MaxEpochs /\ cfg_eval_step = 1
  /\ stopping_step = MaxPatience /\ valid_metric_bigger = TRUE
  /\ valid_data = TRUE /\ saved = TRUE
  /\ model_name = "BPR"
  /\ epochs = cfg_epochs /\ eval_step = Min(cfg_eval_step, cfg_epochs)
  /\ start_epoch = 0 /\ cur_step = 0 /\ best_valid_score = -1
  /\ best_valid_result = None
  /\ model_state = 0 /\ optimizer_state = 0 /\ grad = "none"
  /\ saved_model_file = None
  /\ resume_file \in {Some(c) : c \in SavedFiles \cup PretrainedFiles}
  /\ pc = "ready" /\ NoLocals
  /\ trained = 0 /\ evals = 0 /\ nsteps = 0 /\ after_step = FreshModel
  /\ snap = NoSnap /\ last = "init" /\ runs = 1
  /\ warned = FALSE /\ resumed = FALSE
  /\ PlainFit /\ NoCalls
  /\ IdleEval /\ IdlePop /\ IdleSave /\ IdleAux

SpecWritten == InitWritten /\ [][NextResume]_vars

\* C35: every checkpoint file a trainer writes can be resumed:
\* resume_checkpoint succeeds in reading epoch, cur_step and
\* best_valid_score from the checkpoints of _save_checkpoint (the one of
\* epoch -1 included) and from those of save_pretrained_model.
C35_EveryFileResumes ==
  resumed =>
    /\ pc = "ready" /\ last = "resume"
    /\ start_epoch = resume_file[1].epoch + 1
    /\ model_state = resume_file[1].state_dict


(***************************************************************************)
(* CausE train_and_eval (src/ads/CausE.py, lines 43-153): the epoch loop,  *)
(* the early-stopping check after each epoch and the final metrics.        *)
(* EarlyStopping (utils.early_stop) is not among the source files: its     *)
(* check is any function of its arguments and its own state that returns   *)
(* a truth value and may record the model's parameters as the best state.  *)
(***************************************************************************)
Aucs == 0..MaxAuc

\* line 63: Stop_args(patience=..., max_epochs=training_args['epochs']);
\* line 64: EarlyStopping(model, **stopping_args) has recorded nothing yet
InitCausE ==
  /\ IdleLife /\ IdleEval /\ IdlePop /\ IdleSave /\ IdleRec /\ IdleSplit
  /\ cpc = "loop"
  /\ max_epochs \in 0..MaxEpochs
  /\ epo = -1 /\ model_params = 0
  /\ best_state = None /\ best_epoch = None /\ val_results = None
  /\ checks = <<>> /\ test_results = None

CausEFrame ==
  UNCHANGED <<max_epochs, lifeVars, evalVars, popVars, saveVars, recVars,
              splitVars>>

\* a condition that never leaves the loop
NeverBreaks(stop) == FALSE

\* lines 119-120: if early_stopping.check(...): break
Breaks(stop) == stop

\* EarlyStopping.check(values, epoch): records the epoch and the
\* parameters of the model as the best ones, or records nothing
CheckRecords(values, epoch) ==
  {[state |-> best_state, epoch |-> best_epoch],
   [state |-> Some(model_params), epoch |-> Some(epoch)]}

\* line 65: the next epo of range(max_epochs); lines 66-91: the batches of
\* the epoch change the parameters of the model
CausETrainEpoch ==
  /\ cpc = "loop"
  /\ epo + 1 < max_epochs
  /\ epo' = epo + 1
  /\ model_params' = model_params + 1
  /\ cpc' = "trained"
  /\ UNCHANGED <<best_state, best_epoch, val_results, checks, test_results>>
  /\ CausEFrame

\* lines 93-113: model.eval() and the metrics of the epoch
CausEValidate ==
  /\ cpc = "trained"
  /\ \E auc \in Aucs : val_results' = Some(auc)
  /\ cpc' = "validated"
  /\ UNCHANGED <<epo, model_params, best_state, best_epoch, checks,
                 test_results>>
  /\ CausEFrame

\* lines 119-120: early_stopping.check([val_results['AUC']], epo), and the
\* break when it returns true
CausECheck ==
  /\ cpc = "validated"
  /\ \E stop \in BOOLEAN :
       \E rec \in CheckRecords(<<val_results[1]>>, epo) :
         /\ checks' = Append(checks, [values |-> <<val_results[1]>>,
                                      epoch |-> epo, stop |-> stop])
         /\ best_state' = rec.state
         /\ best_epoch' = rec.epoch
         /\ cpc' = IF Breaks(stop) THEN "after_loop" ELSE "loop"
  /\ UNCHANGED <<epo, model_params, val_results, test_results>>
  /\ CausEFrame

\* line 65: range(max_epochs) is exhausted
CausELoopEnd ==
  /\ cpc = "loop"
  /\ ~(epo + 1 < max_epochs)
  /\ cpc' = "after_loop"
  /\ UNCHANGED <<epo, model_params, best_state, best_epoch, val_results,
                 checks, test_results>>
  /\ CausEFrame

\* lines 123-124: model.load_state_dict(early_stopping.best_state); it
\* raises for a best_state that is None
CausELoadBest ==
  /\ cpc = "after_loop"
  /\ IF best_state = None
       THEN cpc' = "raised" /\ UNCHANGED model_params
       ELSE cpc' = "loaded" /\ model_params' = best_state[1]
  /\ UNCHANGED <<epo, best_state, best_epoch, val_results, checks,
                 test_results>>
  /\ CausEFrame

\* lines 126-153: the final validation and test metrics, and the return
CausEFinalMetrics ==
  /\ cpc = "loaded"
  /\ test_results' = Some(model_params)
  /\ cpc' = "returned"
  /\ UNCHANGED <<epo, model_params, best_state, best_epoch, val_results,
                 checks>>
  /\ CausEFrame

NextCausE ==
  \/ CausETrainEpoch \/ CausEValidate \/ CausECheck
  \/ CausELoopEnd \/ CausELoadBest \/ CausEFinalMetrics

SpecCausE == InitCausE /\ [][NextCausE]_vars

InCausELoop == cpc \in {"loop", "trained", "validated"}

\* the loop, its exit and the restored parameters, state by state
CausEConsistent ==
  /\ epo < max_epochs
  /\ Len(checks) <= max_epochs
  /\ Len(checks) = (IF cpc \in {"trained", "validated"} THEN epo ELSE epo + 1)
  /\ \A i \in 1..Len(checks) :
       /\ checks[i].epoch = i - 1
       /\ i < Len(checks) => ~checks[i].stop
  /\ (cpc = "validated" /\ Len(checks) > 0) => ~checks[Len(checks)].stop
  /\ (cpc = "loop" /\ Len(checks) > 0) => ~checks[Len(checks)].stop
  /\ ~InCausELoop =>
       \/ Len(checks) > 0 /\ checks[Len(checks)].stop
       \/ Len(checks) = max_epochs
  /\ InCausELoop => model_params = epo + 1
  /\ cpc \in {"loaded", "returned"} => model_params = best_state[1]
  /\ cpc = "returned" => test_results = best_state
  /\ cpc # "returned" => test_results = None

\* the check of an epoch receives the AUC computed for that epoch
CausECheckedValue ==
  [][cpc = "validated" =>
       /\ Len(checks') = Len(checks) + 1
       /\ checks'[Len(checks')].values = <<val_results[1]>>
       /\ checks'[Len(checks')].epoch = epo]_vars

\* C38: the training loop runs at most max_epochs epochs, calls the
\* early-stopping check exactly once after each epoch with that epoch's
\* validation AUC, leaves the loop at the first epoch whose check returns
\* true, and replaces the parameters of the model with the recorded best
\* state only after the loop and before the final metrics are computed.
C38_LoopAndRestore == []CausEConsistent /\ CausECheckedValue

C38_Witness ==
  /\ cpc = "returned"
  /\ Len(checks) = 2 /\ max_epochs > 2
  /\ checks[2].stop
  /\ best_state = Some(1)

=============================================================================
